---- MODULE Spec2Model ----
(***************************************************************************)
(* Model of backend/utils/hyperlocal_system.py (HyperlocalAQISystem): the  *)
(* hyperlocal AQI interpolation, the micro-adjustment step and the safe    *)
(* route generator, together with the one piece of state they share: the   *)
(* `distance` attribute that _find_nearby_stations stores on the Location  *)
(* objects of the module-level station registry.                           *)
(*                                                                         *)
(* Units.  The source computes in binary floating point; the model uses    *)
(* integers:                                                               *)
(*   latitude, longitude   1e-5 degree                                     *)
(*   distance, radius      metre                                           *)
(*   duration              minute                                          *)
(*   AQI, concentration    tenths (287 is 2870), registry AQI whole units  *)
(*   confidence, factors   hundredths                                      *)
(*   exposure, score       1/600 (exposure = avg_aqi * duration / 60)      *)
(* round(x, n) is modelled by Nearest: the nearest value, and either       *)
(* neighbour on an exact tie (where the binary representation decides).    *)
(***************************************************************************)
EXTENDS Integers, Sequences, FiniteSets, TLC

VARIABLES
    station_distance,   \* the .distance attribute of each registry Location
    pc,                 \* per request thread: position inside get_hyperlocal_aqi
    req,                \* per request thread: the arguments of the call in progress
    nearby,             \* per request thread: local nearby / nearby_stations list
    interpolated,       \* per request thread: local interpolated_aqi
    response,           \* the value handed back to the caller, until it is taken
    now,                \* datetime.now(), in ticks of half a second
    active_interventions,    \* policy_tracker.active_interventions
    baseline_measurements,   \* policy_tracker.baseline_measurements
    effectiveness_history,   \* policy_tracker.effectiveness_history
    cache,                   \* free_api.cache
    active_policies,         \* policy_enforcement_engine.active_policies
    compliance_monitoring,   \* policy_enforcement_engine.compliance_monitoring
    automated_interventions  \* policy_enforcement_engine.automated_interventions

\* the fields of the policy_tracker singleton
tracker == <<active_interventions, baseline_measurements, effectiveness_history>>

\* the fields of the policy_enforcement_engine singleton
engine == <<active_policies, compliance_monitoring, automated_interventions>>

\* the clock and the singletons other than hyperlocal_system
services == <<now, tracker, cache, engine>>

vars == <<station_distance, pc, req, nearby, interpolated, response, services>>

\* the singletons as their constructors leave them
ServicesInit ==
    /\ now = 0
    /\ active_interventions = <<>>
    /\ baseline_measurements = <<>>
    /\ effectiveness_history = <<>>
    /\ cache = <<>>
    /\ active_policies = <<>>
    /\ compliance_monitoring = <<>>
    /\ automated_interventions = <<>>

----------------------------------------------------------------------------
(* Arithmetic helpers *)

Abs(x) == IF x < 0 THEN -x ELSE x

Min(a, b) == IF a < b THEN a ELSE b

Max(a, b) == IF a > b THEN a ELSE b

RECURSIVE SqrtSearch(_, _, _)
SqrtSearch(n, lo, hi) ==
    IF lo >= hi THEN lo
    ELSE LET mid == (lo + hi + 1) \div 2
         IN IF mid * mid <= n THEN SqrtSearch(n, mid, hi)
                              ELSE SqrtSearch(n, lo, mid - 1)

\* floor of the square root; arguments stay below 46340^2
Isqrt(n) == SqrtSearch(n, 0, 46340)

\* round(num/den, digits): the integers nearest to num/den (two on a tie)
Nearest(num, den) ==
    LET q == num \div den
        r == num % den
    IN IF 2 * r < den THEN {q}
       ELSE IF 2 * r > den THEN {q + 1}
       ELSE {q, q + 1}

RECURSIVE SumSeq(_)
SumSeq(s) == IF s = <<>> THEN 0 ELSE Head(s) + SumSeq(Tail(s))

----------------------------------------------------------------------------
(* The registry built by HyperlocalAQISystem.__init__ *)

StationOrder ==
    <<"central_delhi", "east_delhi", "west_delhi", "south_delhi", "north_delhi",
      "ito_junction", "cp_metro", "india_gate", "mayapuri", "okhla">>

StationKeys == {StationOrder[i] : i \in DOMAIN StationOrder}

Loc(lat, lon, name, aqi, pm25, pm10, no2) ==
    [latitude |-> lat, longitude |-> lon, name |-> name, aqi |-> aqi,
     pollutants |-> [pm25 |-> pm25, pm10 |-> pm10, no2 |-> no2]]

monitoring_stations ==
    [central_delhi |-> Loc(2861390, 7720900, "Central Delhi", 287, 1125, 1953, 456),
     east_delhi    |-> Loc(2863580, 7731450, "East Delhi",    245,  987, 1764, 387),
     west_delhi    |-> Loc(2861390, 7710250, "West Delhi",    312, 1258, 2106, 523),
     south_delhi   |-> Loc(2845950, 7702660, "South Delhi",   178,  783, 1452, 294),
     north_delhi   |-> Loc(2870410, 7710250, "North Delhi",    95,  426,  897, 189),
     ito_junction  |-> Loc(2863150, 7721670, "ITO Junction",  325, 1347, 2015, 543),
     cp_metro      |-> Loc(2863150, 7721670, "CP Metro",      267, 1056, 1829, 472),
     india_gate    |-> Loc(2861290, 7722950, "India Gate",    278, 1125, 1893, 497),
     mayapuri      |-> Loc(2862890, 7720650, "Mayapuri",      342, 1568, 2346, 354),
     okhla         |-> Loc(2853140, 7727280, "Okhla",         298, 1423, 2187, 382)]

PollutantKeys == {"pm25", "pm10", "no2"}

MetroOrder ==
    <<"rajiv_chowk", "central_secretariat", "india_gate", "connaught_place",
      "karol_bagh", "new_delhi", "old_delhi">>

metro_stations ==
    [rajiv_chowk         |-> [latitude |-> 2863150, longitude |-> 7721670],
     central_secretariat |-> [latitude |-> 2861290, longitude |-> 7720810],
     india_gate          |-> [latitude |-> 2861290, longitude |-> 7722950],
     connaught_place     |-> [latitude |-> 2863150, longitude |-> 7721670],
     karol_bagh          |-> [latitude |-> 2865140, longitude |-> 7719090],
     new_delhi           |-> [latitude |-> 2864390, longitude |-> 7721900],
     old_delhi           |-> [latitude |-> 2865620, longitude |-> 7724100]]

----------------------------------------------------------------------------
(* _calculate_distance: haversine with R = 6371 km.  For the separations   *)
(* of the model (below 0.5 degree) sin(x/2)^2 = (x/2)^2 and                *)
(* 2*atan2(sqrt a, sqrt(1-a)) = 2*sqrt a to better than 1e-5, so the       *)
(* distance is R*sqrt(dlat^2 + cos(lat1)*cos(lat2)*dlon^2), radians.       *)

\* degrees (1e-5) to radians (1e-5): pi/180 = 0.0174533
Radians(deg5) ==
    LET d4 == deg5 \div 10
    IN (d4 * 1745) \div 10000 + (d4 * 33) \div 1000000

\* 1 - y/2 + y^2/24 - y^3/720 for y = x^2 in 1e-5, rounded to 1e-4
CosSeries(y) ==
    (100000 - y \div 2 + (y * y) \div 2400000
        - (((y * y) \div 100000) * y) \div 72000000 + 5) \div 10

\* x^2 in 1e-5 for x in 1e-5
Squared(x) == ((x \div 2) * (x \div 2)) \div 25000

\* cos of a latitude given in 1e-5 degree, in 1e-4 (Taylor series to x^6)
Cos(lat5) == CosSeries(Squared(Radians(lat5)))

\* the arc R * angle for an angle given in 1e-5 degree, in metres
\* (R * pi / 180 = 111.195 km per degree)
ArcMetres(deg5) == deg5 + (deg5 * 11195) \div 100000

Hypot(dx, dy) == Isqrt(dx * dx + dy * dy)

calculate_distance(lat1, lon1, lat2, lon2) ==
    Hypot((ArcMetres(Abs(lon2 - lon1)) * Isqrt(Cos(lat1) * Cos(lat2))) \div 10000,
          ArcMetres(Abs(lat2 - lat1)))

----------------------------------------------------------------------------
(* Inputs: the coordinates the calls are made with *)

\* query points: Central Delhi, Rajiv Chowk / ITO, India Gate, a point 1.8 km
\* north of the North Delhi station, a point with no station within 2 km,
\* the South Delhi and North Delhi stations
PointList ==
    <<<<2861390, 7720900>>, <<2863150, 7721670>>, <<2872010, 7710250>>,
      <<2861290, 7722950>>, <<2855000, 7715000>>, <<2845950, 7702660>>,
      <<2870410, 7710250>>>>

NumPoints == 5

Points == {PointList[i] : i \in 1..Min(NumPoints, Len(PointList))}

\* mid_lat, mid_lon of _generate_direct_route for the pairs of query points
Midpoints == {<<(a[1] + b[1]) \div 2, (a[2] + b[2]) \div 2>> : a \in Points, b \in Points}

KnownPoints ==
    Points \cup Midpoints
        \cup {<<monitoring_stations[k].latitude, monitoring_stations[k].longitude>> :
                 k \in StationKeys}
        \cup {<<metro_stations[MetroOrder[i]].latitude, metro_stations[MetroOrder[i]].longitude>> :
                 i \in DOMAIN MetroOrder}

\* calculate_distance tabulated once over the coordinates that occur
DistanceTable ==
    [a \in KnownPoints |->
        [b \in KnownPoints |-> calculate_distance(a[1], a[2], b[1], b[2])]]

Distance(lat1, lon1, lat2, lon2) ==
    IF <<lat1, lon1>> \in KnownPoints /\ <<lat2, lon2>> \in KnownPoints
    THEN DistanceTable[<<lat1, lon1>>][<<lat2, lon2>>]
    ELSE calculate_distance(lat1, lon1, lat2, lon2)

----------------------------------------------------------------------------
(* _find_nearby_stations *)

NoDistance == -1    \* the Location object has no .distance attribute yet

StationDistanceTo(lat, lon, k) ==
    Distance(lat, lon, monitoring_stations[k].latitude,
                       monitoring_stations[k].longitude)

\* the loop: the stations within the radius, in registry order
StationsWithin(lat, lon, radius_m) ==
    SelectSeq(StationOrder, LAMBDA k : StationDistanceTo(lat, lon, k) <= radius_m)

\* mutant: a distance already stored on a station is kept
DistanceWrittenOnce(lat, lon, radius_m, attr) ==
    [k \in StationKeys |->
        IF StationDistanceTo(lat, lon, k) <= radius_m /\ attr[k] = NoDistance
        THEN StationDistanceTo(lat, lon, k)
        ELSE attr[k]]

\* the loop's side effect: station.distance = distance on every station kept
DistanceWritten(lat, lon, radius_m, attr) ==
    [k \in StationKeys |->
        IF StationDistanceTo(lat, lon, k) <= radius_m
        THEN StationDistanceTo(lat, lon, k)
        ELSE attr[k]]

RECURSIVE InsertByKey(_, _, _)
InsertByKey(sorted, x, key) ==
    IF sorted = <<>> THEN <<x>>
    ELSE IF key[x] < key[Head(sorted)] THEN <<x>> \o sorted
    ELSE <<Head(sorted)>> \o InsertByKey(Tail(sorted), x, key)

RECURSIVE StableSort(_, _)
\* sorted(seq, key=...): ascending and stable, the keys read from `key`
StableSort(seq, key) ==
    IF seq = <<>> THEN <<>>
    ELSE InsertByKey(StableSort(SubSeq(seq, 1, Len(seq) - 1), key), seq[Len(seq)], key)

\* mutant: the list is returned in registry order
SortNearbyOmitted(list, attr) == list

\* return sorted(nearby, key=lambda x: x.distance): the attribute is read here
SortNearby(list, attr) == StableSort(list, attr)

FoundWith(list, written) == [list |-> SortNearby(list, written), attr |-> written]

\* the whole of _find_nearby_stations run without interruption
find_nearby_stations(lat, lon, radius_m, attr) ==
    FoundWith(StationsWithin(lat, lon, radius_m),
              DistanceWritten(lat, lon, radius_m, attr))

----------------------------------------------------------------------------
(* _interpolate_aqi *)

\* mutant: a weight that grows with the distance
WeightGrowing(dist_m) == dist_m + 100

\* weight = 1 / (station.distance + 0.1), in 1e-4 per km
Weight(dist_m) == 10000000 \div (dist_m + 100)

ConfidenceFloor == 30

ConfidenceCeiling == 95

\* max(0.3, min(0.95, 1.0 - avg_distance/2.0 + len*0.1)), rounded to 2 places;
\* computed over the common denominator n (units 1e-4 / n)
\* mutant: the lower clamp max(0.3, .) left out
ClampedConfidenceNoFloor(n, distance_sum) ==
    Nearest(Min(ConfidenceCeiling * 100 * n,
                10000 * n - 5 * distance_sum + 1000 * n * n),
            100 * n)

ClampedConfidence(n, distance_sum) ==
    Nearest(Max(ConfidenceFloor * 100 * n,
                Min(ConfidenceCeiling * 100 * n,
                    10000 * n - 5 * distance_sum + 1000 * n * n)),
            100 * n)

ConfidenceOf(dists) == ClampedConfidence(Len(dists), SumSeq(dists))

\* the set of values _interpolate_aqi can return for the stations of `list`,
\* whose .distance attributes currently read `attr`
WeightedAqi(list, attr) ==
    SumSeq([i \in DOMAIN list |-> monitoring_stations[list[i]].aqi * Weight(attr[list[i]])])

WeightedPollutant(list, attr, pk) ==
    SumSeq([i \in DOMAIN list |->
               monitoring_stations[list[i]].pollutants[pk] * Weight(attr[list[i]])])

\* the normalisation by total_weight and the rounding of the return statement
Normalized(list, attr, total_weight) ==
    [aqi        : Nearest(10 * WeightedAqi(list, attr), total_weight),
     pollutants : [pm25 : Nearest(WeightedPollutant(list, attr, "pm25"), total_weight),
                   pm10 : Nearest(WeightedPollutant(list, attr, "pm10"), total_weight),
                   no2  : Nearest(WeightedPollutant(list, attr, "no2"), total_weight)],
     confidence : ConfidenceOf([i \in DOMAIN list |-> attr[list[i]]])]

interpolate_aqi(list, attr) ==
    IF list = <<>>
    THEN {[aqi |-> 2000, pollutants |-> <<>>, confidence |-> 50]}
    ELSE Normalized(list, attr, SumSeq([i \in DOMAIN list |-> Weight(attr[list[i]])]))

----------------------------------------------------------------------------
(* _calculate_micro_environmental_factors *)

\* mutant: a rush-hour factor of 2.0
time_factor_rush_doubled(hour) ==
    IF (6 <= hour /\ hour <= 9) \/ (17 <= hour /\ hour <= 20) THEN 200
    ELSE IF 22 <= hour \/ hour <= 5 THEN 80
    ELSE 100

time_factor(hour) ==
    IF (6 <= hour /\ hour <= 9) \/ (17 <= hour /\ hour <= 20) THEN 120
    ELSE IF 22 <= hour \/ hour <= 5 THEN 80
    ELSE 100

\* np.random.uniform(lo, hi): the model draws the two ends of each range, and
\* one interior value of the last
TrafficDraws == {90, 130}

GreenSpaceDraws == {70, 110}

IndustrialDraws == {80, 120}

ConstructionDraws == {90, 122, 140}

\* datetime.now().hour: one hour of each band of the lookup
ClockHours == {3, 8, 12}

\* every value datetime.now().hour can take
DayHours == 0..23

MicroFactorDraws ==
    [time_factor         : {time_factor(h) : h \in ClockHours},
     traffic_factor      : TrafficDraws,
     green_space_factor  : GreenSpaceDraws,
     industrial_factor   : IndustrialDraws,
     construction_factor : ConstructionDraws]

----------------------------------------------------------------------------
(* _adjust_aqi_for_local_factors *)

AqiCeiling == 500

\* np.mean of the five factors is FactorSum / 5 (hundredths)
FactorSum(mf) ==
    mf.time_factor + mf.traffic_factor + mf.green_space_factor
        + mf.industrial_factor + mf.construction_factor

\* mutant: the clamp to [0, 500] left out
AdjustedAqiUnclamped(base10, mf) == Nearest(base10 * FactorSum(mf), 500)

\* max(0, min(500, base * combined_factor)), then round(., 1)
AdjustedAqi(base10, mf) ==
    Nearest(Max(0, Min(AqiCeiling * 10 * 500, base10 * FactorSum(mf))), 500)

\* value * combined_factor, then round(., 1): no clamp
AdjustedPollutant(value10, mf) == Nearest(value10 * FactorSum(mf), 500)

\* base confidence * 0.95, then round(., 2)
AdjustedConfidence(conf) == Nearest(conf * 95, 100)

adjust_aqi_for_local_factors(base_aqi, mf) ==
    [aqi        : AdjustedAqi(base_aqi.aqi, mf),
     pollutants : [pm25 : AdjustedPollutant(base_aqi.pollutants.pm25, mf),
                   pm10 : AdjustedPollutant(base_aqi.pollutants.pm10, mf),
                   no2  : AdjustedPollutant(base_aqi.pollutants.no2, mf)],
     confidence : AdjustedConfidence(base_aqi.confidence)]

----------------------------------------------------------------------------
(* _get_aqi_category, _get_health_recommendations, _get_city_average_aqi *)

get_aqi_category(aqi10) ==
    IF aqi10 <= 500 THEN "Good"
    ELSE IF aqi10 <= 1000 THEN "Satisfactory"
    ELSE IF aqi10 <= 2000 THEN "Moderate"
    ELSE IF aqi10 <= 3000 THEN "Poor"
    ELSE IF aqi10 <= 4000 THEN "Very Poor"
    ELSE "Severe"

get_health_recommendations(aqi10) ==
    IF aqi10 <= 500 THEN <<"Enjoy outdoor activities", "Good air quality for everyone">>
    ELSE IF aqi10 <= 1000
        THEN <<"Sensitive groups may experience minor breathing discomfort">>
    ELSE IF aqi10 <= 2000
        THEN <<"Sensitive groups should limit outdoor activities", "Use N95 masks if needed">>
    ELSE IF aqi10 <= 3000
        THEN <<"Avoid outdoor activities", "Keep windows closed", "Use air purifiers">>
    ELSE IF aqi10 <= 4000
        THEN <<"Stay indoors", "Use N95 masks", "Run air purifiers continuously">>
    ELSE <<"Emergency conditions - avoid all outdoor activities", "Use HEPA air purifiers">>

FallbackConfidence == 60

RegistryAqiSum ==
    SumSeq([i \in DOMAIN StationOrder |-> monitoring_stations[StationOrder[i]].aqi])

\* mutant: floor division (//) in place of /
CityAverageFloored10 == 10 * (RegistryAqiSum \div Len(StationOrder))

\* mutant: the sum is not divided by the station count
CityAqiSum10 == 10 * RegistryAqiSum

\* sum(station.aqi) / len(monitoring_stations), in tenths (the sum is whole)
CityAverage10 == (10 * RegistryAqiSum) \div Len(StationOrder)

\* avg_aqi/2.5 and avg_aqi/1.2 are not rounded by the source; the model keeps
\* them to its resolution of one tenth
get_city_average_aqi ==
    [aqi        |-> CHOOSE a \in Nearest(CityAverage10, 1) : TRUE,
     category   |-> get_aqi_category(CityAverage10),
     pollutants |-> [pm25 |-> (CityAverage10 * 10) \div 25,
                     pm10 |-> (CityAverage10 * 10) \div 12],
     confidence |-> FallbackConfidence,
     note       |-> "City average - less precise than hyperlocal data"]

----------------------------------------------------------------------------
(* get_hyperlocal_aqi *)

DefaultRadius == 2000

NearbyEntries(list, attr) ==
    [i \in DOMAIN list |->
        [name     |-> monitoring_stations[list[i]].name,
         distance |-> attr[list[i]],
         aqi      |-> monitoring_stations[list[i]].aqi]]

\* the dict built by the return statement, from the adjusted values
HyperlocalResult(lat, lon, adjusted, list, attr, mf) ==
    [latitude               |-> lat,
     longitude              |-> lon,
     aqi                    |-> adjusted.aqi,
     category               |-> get_aqi_category(adjusted.aqi),
     pollutants             |-> adjusted.pollutants,
     confidence             |-> adjusted.confidence,
     nearby_stations        |-> NearbyEntries(list, attr),
     micro_factors          |-> mf,
     health_recommendations |-> get_health_recommendations(adjusted.aqi),
     timestamp              |-> "now"]

\* the micro-adjustment and the return statement, for an interpolated base:
\* every value they can produce over the draws of the factors
AdjustedResults(lat, lon, base, list, attr) ==
    UNION {{HyperlocalResult(lat, lon, adj, list, attr, mf) :
               adj \in adjust_aqi_for_local_factors(base, mf)} :
           mf \in MicroFactorDraws}

\* one uninterrupted call: the registry attributes it leaves behind and the
\* values it can return
ResultsAfterFind(lat, lon, found) ==
    [attr    |-> found.attr,
     results |-> IF found.list = <<>>
                 THEN {get_city_average_aqi}
                 ELSE UNION {AdjustedResults(lat, lon, base, found.list, found.attr) :
                             base \in interpolate_aqi(found.list, found.attr)}]

get_hyperlocal_aqi(lat, lon, radius_m, attr) ==
    ResultsAfterFind(lat, lon, find_nearby_stations(lat, lon, radius_m, attr))

----------------------------------------------------------------------------
(* Route generation *)

Segment(slat, slon, elat, elon, aqi10, duration, distance_m, tag) ==
    [start_lat |-> slat, start_lon |-> slon, end_lat |-> elat, end_lon |-> elon,
     aqi |-> aqi10, duration |-> duration, distance |-> distance_m, route_type |-> tag]

\* mutant: the exposure taken over the distance instead of the duration
SingleSegmentRouteByDistance(slat, slon, elat, elon, aqi10, duration, distance_m, tag, penalty) ==
    [segments           |-> <<Segment(slat, slon, elat, elon, aqi10, duration, distance_m, tag)>>,
     total_duration     |-> duration,
     total_distance     |-> distance_m,
     avg_aqi            |-> aqi10,
     max_aqi            |-> aqi10,
     pollution_exposure |-> aqi10 * distance_m,
     route_score        |-> aqi10 * distance_m + duration * penalty]

\* a SafeRoute of one segment: exposure = aqi * (duration / 60),
\* score = exposure + duration * penalty (penalty in 1/600 per minute)
SingleSegmentRoute(slat, slon, elat, elon, aqi10, duration, distance_m, tag, penalty) ==
    [segments           |-> <<Segment(slat, slon, elat, elon, aqi10, duration, distance_m, tag)>>,
     total_duration     |-> duration,
     total_distance     |-> distance_m,
     avg_aqi            |-> aqi10,
     max_aqi            |-> aqi10,
     pollution_exposure |-> aqi10 * duration,
     route_score        |-> aqi10 * duration + duration * penalty]

DirectRouteOver(slat, slon, elat, elon, mid_aqi10, distance) ==
    SingleSegmentRoute(slat, slon, elat, elon, mid_aqi10,
                       (distance * 2) \div 1000, distance, "road", 60)

\* int(distance * 2), AQI of the midpoint, penalty 0.1
generate_direct_route(slat, slon, elat, elon, mid_aqi10) ==
    DirectRouteOver(slat, slon, elat, elon, mid_aqi10, Distance(slat, slon, elat, elon))

MetroRadius == 2000

MetroDistanceTo(lat, lon, k) ==
    Distance(lat, lon, metro_stations[k].latitude, metro_stations[k].longitude)

RECURSIVE NearestMetroFrom(_, _, _, _, _)
\* the loop of _find_nearest_metro_station from index i on
NearestMetroFrom(lat, lon, i, min_distance, nearest) ==
    IF i > Len(MetroOrder) THEN nearest
    ELSE IF MetroDistanceTo(lat, lon, MetroOrder[i]) < min_distance
            /\ MetroDistanceTo(lat, lon, MetroOrder[i]) < MetroRadius
         THEN NearestMetroFrom(lat, lon, i + 1, MetroDistanceTo(lat, lon, MetroOrder[i]),
                               MetroOrder[i])
         ELSE NearestMetroFrom(lat, lon, i + 1, min_distance, nearest)

NoStation == "None"

Infinity == 2000000000

RECURSIVE NearestMetroAnyFrom(_, _, _, _, _)
NearestMetroAnyFrom(lat, lon, i, min_distance, nearest) ==
    IF i > Len(MetroOrder) THEN nearest
    ELSE IF MetroDistanceTo(lat, lon, MetroOrder[i]) < min_distance
         THEN NearestMetroAnyFrom(lat, lon, i + 1, MetroDistanceTo(lat, lon, MetroOrder[i]),
                                  MetroOrder[i])
         ELSE NearestMetroAnyFrom(lat, lon, i + 1, min_distance, nearest)

\* mutant: the `distance < 2.0` test left out
nearest_metro_station_unbounded(lat, lon) ==
    NearestMetroAnyFrom(lat, lon, 1, Infinity, NoStation)

find_nearest_metro_station(lat, lon) == NearestMetroFrom(lat, lon, 1, Infinity, NoStation)

MetroAqi == 180

WalkingAqi == 250

NoRoute == [kind |-> "None"]

Raised(error) == [kind |-> "raised", error |-> error]

Built(route) == [kind |-> "route", route |-> route]

\* mutant: max_aqi taken from the metro leg instead of max(walking, metro)
MetroRouteOfMetroMax(slat, slon, elat, elon, ss, es, walk_to_start, walk_from_end, metro_distance, metro_time) ==
    [segments |->
        <<Segment(slat, slon, ss.latitude, ss.longitude, WalkingAqi * 10,
                  walk_to_start, walk_to_start * 100, "walking"),
          Segment(ss.latitude, ss.longitude, es.latitude, es.longitude,
                  MetroAqi * 10, metro_time, metro_distance, "metro"),
          Segment(es.latitude, es.longitude, elat, elon, WalkingAqi * 10,
                  walk_from_end, walk_from_end * 100, "walking")>>,
     total_duration     |-> walk_to_start + metro_time + walk_from_end,
     total_distance     |-> (walk_to_start + walk_from_end) * 100 + metro_distance,
     avg_aqi            |-> (MetroAqi * 10 * metro_time
                               + WalkingAqi * 10 * (walk_to_start + walk_from_end))
                                \div (walk_to_start + metro_time + walk_from_end),
     max_aqi            |-> MetroAqi * 10,
     pollution_exposure |-> WalkingAqi * 10 * (walk_to_start + walk_from_end)
                                + MetroAqi * 10 * metro_time,
     route_score        |-> WalkingAqi * 10 * (walk_to_start + walk_from_end)
                                + MetroAqi * 10 * metro_time
                                + (walk_to_start + metro_time + walk_from_end) * 30]

\* the SafeRoute built from the three durations (minutes) and the metro leg
MetroRouteOf(slat, slon, elat, elon, ss, es, walk_to_start, walk_from_end, metro_distance, metro_time) ==
    [segments |->
        <<Segment(slat, slon, ss.latitude, ss.longitude, WalkingAqi * 10,
                  walk_to_start, walk_to_start * 100, "walking"),
          Segment(ss.latitude, ss.longitude, es.latitude, es.longitude,
                  MetroAqi * 10, metro_time, metro_distance, "metro"),
          Segment(es.latitude, es.longitude, elat, elon, WalkingAqi * 10,
                  walk_from_end, walk_from_end * 100, "walking")>>,
     total_duration     |-> walk_to_start + metro_time + walk_from_end,
     total_distance     |-> (walk_to_start + walk_from_end) * 100 + metro_distance,
     \* a float quotient in the source; kept to one tenth
     avg_aqi            |-> (MetroAqi * 10 * metro_time
                               + WalkingAqi * 10 * (walk_to_start + walk_from_end))
                                \div (walk_to_start + metro_time + walk_from_end),
     max_aqi            |-> Max(WalkingAqi, MetroAqi) * 10,
     pollution_exposure |-> WalkingAqi * 10 * (walk_to_start + walk_from_end)
                                + MetroAqi * 10 * metro_time,
     route_score        |-> WalkingAqi * 10 * (walk_to_start + walk_from_end)
                                + MetroAqi * 10 * metro_time
                                + (walk_to_start + metro_time + walk_from_end) * 30]

\* avg_aqi divides by total_duration: ZeroDivisionError when it is 0
MetroRouteTimed(slat, slon, elat, elon, ss, es, walk_to_start, walk_from_end, metro_distance, metro_time) ==
    IF walk_to_start + metro_time + walk_from_end = 0
    THEN Raised("ZeroDivisionError")
    ELSE Built(MetroRouteOf(slat, slon, elat, elon, ss, es, walk_to_start,
                            walk_from_end, metro_distance, metro_time))

\* walk_to_start = int(d * 10), metro_time = int(metro_distance * 1.5)
MetroRouteBetween(slat, slon, elat, elon, ss, es, metro_distance) ==
    MetroRouteTimed(slat, slon, elat, elon, ss, es,
                    Distance(slat, slon, ss.latitude, ss.longitude) \div 100,
                    Distance(es.latitude, es.longitude, elat, elon) \div 100,
                    metro_distance, (metro_distance * 3) \div 2000)

MetroRouteVia(slat, slon, elat, elon, sk, ek) ==
    IF sk = NoStation \/ ek = NoStation THEN NoRoute
    ELSE MetroRouteBetween(slat, slon, elat, elon, metro_stations[sk], metro_stations[ek],
                           Distance(metro_stations[sk].latitude, metro_stations[sk].longitude,
                                    metro_stations[ek].latitude, metro_stations[ek].longitude))

\* _generate_metro_route: None, a SafeRoute, or ZeroDivisionError when the
\* three durations add up to 0
generate_metro_route(slat, slon, elat, elon) ==
    MetroRouteVia(slat, slon, elat, elon,
                  find_nearest_metro_station(slat, slon),
                  find_nearest_metro_station(elat, elon))

GreenAqi == 150

\* green_distance = distance * 1.3, duration = int(green_distance * 2.5)
GreenRouteOver(slat, slon, elat, elon, distance) ==
    Built(SingleSegmentRoute(slat, slon, elat, elon, GreenAqi * 10,
                             (distance * 13) \div 4000, (distance * 13) \div 10,
                             "road", 48))

\* mutant: no green route is generated
GreenRouteOmitted(slat, slon, elat, elon) == NoRoute

generate_green_route(slat, slon, elat, elon) ==
    GreenRouteOver(slat, slon, elat, elon, Distance(slat, slon, elat, elon))

CyclingLimit == 15000

CyclingAqi == 200

\* mutant: the `distance > 15` early return left out
CyclingRouteAnyDistance(slat, slon, elat, elon, distance) ==
    Built(SingleSegmentRoute(slat, slon, elat, elon, CyclingAqi * 10,
                             (distance * 4) \div 1000, distance, "cycling", 18))

CyclingRouteOver(slat, slon, elat, elon, distance) ==
    IF distance > CyclingLimit THEN NoRoute
    ELSE Built(SingleSegmentRoute(slat, slon, elat, elon, CyclingAqi * 10,
                                  (distance * 4) \div 1000, distance, "cycling", 18))

\* None beyond 15 km, else int(distance * 4) minutes at AQI 200
generate_cycling_route(slat, slon, elat, elon) ==
    CyclingRouteOver(slat, slon, elat, elon, Distance(slat, slon, elat, elon))

WalkingRouteOver(slat, slon, elat, elon, distance) ==
    Built(SingleSegmentRoute(slat, slon, elat, elon, WalkingAqi * 10,
                             (distance * 12) \div 1000, distance, "walking", 12))

\* int(distance * 12) minutes at AQI 250
generate_walking_route(slat, slon, elat, elon) ==
    WalkingRouteOver(slat, slon, elat, elon, Distance(slat, slon, elat, elon))

WalkingLimit == 3000

\* mutant: the `< 3` guard left out
WalkingAlwaysEligible(slat, slon, elat, elon) == TRUE

\* the guard of step 5 of get_safe_routes
WalkingEligible(slat, slon, elat, elon) ==
    Distance(slat, slon, elat, elon) < WalkingLimit

\* `if route: routes.append(route)`
Appended(outcome) == IF outcome.kind = "route" THEN <<outcome.route>> ELSE <<>>

RECURSIVE InsertRoute(_, _)
InsertRoute(sorted, r) ==
    IF sorted = <<>> THEN <<r>>
    ELSE IF r.pollution_exposure < Head(sorted).pollution_exposure THEN <<r>> \o sorted
    ELSE <<Head(sorted)>> \o InsertRoute(Tail(sorted), r)

\* mutant: the sort left out
RoutesAsAppended(routes) == routes

RECURSIVE SortRoutes(_)
\* routes.sort(key=lambda x: x.pollution_exposure): ascending, stable
SortRoutes(routes) ==
    IF routes = <<>> THEN <<>>
    ELSE InsertRoute(SortRoutes(SubSeq(routes, 1, Len(routes) - 1)), routes[Len(routes)])

TopRoutes == 5

\* get_safe_routes from the point where the direct route has been built
\* (the only part that reads the registry and the random source)
\* return routes[:5]
\* mutant: the cut keeps four routes
ReturnedTopFour(sorted) ==
    [kind |-> "returned", routes |-> SubSeq(sorted, 1, Min(4, Len(sorted)))]

Returned(sorted) ==
    [kind |-> "returned", routes |-> SubSeq(sorted, 1, Min(TopRoutes, Len(sorted)))]

\* steps 3 to 5, the sort and the return, once the metro route is decided
RoutesAfterMetro(slat, slon, elat, elon, direct_route, metro) ==
    IF metro.kind = "raised" THEN metro
    ELSE Returned(SortRoutes(
            <<direct_route>>
                \o Appended(metro)
                \o Appended(generate_green_route(slat, slon, elat, elon))
                \o Appended(generate_cycling_route(slat, slon, elat, elon))
                \o (IF WalkingEligible(slat, slon, elat, elon)
                    THEN Appended(generate_walking_route(slat, slon, elat, elon))
                    ELSE <<>>)))

get_safe_routes(slat, slon, elat, elon, direct_route) ==
    RoutesAfterMetro(slat, slon, elat, elon, direct_route,
                     generate_metro_route(slat, slon, elat, elon))

----------------------------------------------------------------------------
(* Inputs *)

\* radius_km: the default of get_hyperlocal_aqi and the value the
\* neighbourhood grid passes
Radii == {DefaultRadius, 1000}

Threads == {"t1", "t2"}

NoResponse == [op |-> "none"]

NoRequest == [op |-> "none"]

NoBase == [aqi |-> 0, pollutants |-> <<>>, confidence |-> 0]

Init ==
    /\ station_distance = [k \in StationKeys |-> NoDistance]
    /\ pc = [t \in Threads |-> "idle"]
    /\ req = [t \in Threads |-> NoRequest]
    /\ nearby = [t \in Threads |-> <<>>]
    /\ interpolated = [t \in Threads |-> NoBase]
    /\ response = NoResponse
    /\ ServicesInit

thread_locals == <<pc, req, nearby, interpolated>>

\* the caller takes the returned value (the handler serialises it and the
\* objects are dropped)
TakeResponse ==
    /\ response # NoResponse
    /\ response' = NoResponse
    /\ UNCHANGED <<station_distance, thread_locals, services>>

----------------------------------------------------------------------------
(* Whole calls, one at a time *)

HyperlocalRequest(lat, lon, radius_m) ==
    [op |-> "get_hyperlocal_aqi", latitude |-> lat, longitude |-> lon, radius |-> radius_m]

\* the call's effect: the attributes it wrote and one of its results
HyperlocalReturns(request, call) ==
    /\ station_distance' = call.attr
    /\ \E r \in call.results :
          response' = [op |-> "get_hyperlocal_aqi", thread |-> "t1",
                       request |-> request, result |-> r]

GetHyperlocalAqi(lat, lon, radius_m) ==
    /\ response = NoResponse
    /\ \A t \in Threads : pc[t] = "idle"
    /\ HyperlocalReturns(HyperlocalRequest(lat, lon, radius_m),
                         get_hyperlocal_aqi(lat, lon, radius_m, station_distance))
    /\ UNCHANGED <<thread_locals, services>>

CallHyperlocal ==
    \E p \in Points, r \in Radii : GetHyperlocalAqi(p[1], p[2], r)

RoutesRequest(slat, slon, elat, elon) ==
    [op |-> "get_safe_routes", start_lat |-> slat, start_lon |-> slon,
     end_lat |-> elat, end_lon |-> elon]

\* the call's effect: mid_call is the get_hyperlocal_aqi call that
\* _generate_direct_route makes for the midpoint
SafeRoutesReturns(slat, slon, elat, elon, mid_call) ==
    /\ station_distance' = mid_call.attr
    /\ \E mid_aqi_data \in mid_call.results :
          response' = [op |-> "get_safe_routes", thread |-> "t1",
                       request |-> RoutesRequest(slat, slon, elat, elon),
                       result |-> get_safe_routes(slat, slon, elat, elon,
                                     generate_direct_route(slat, slon, elat, elon,
                                                           mid_aqi_data.aqi))]

GetSafeRoutes(slat, slon, elat, elon) ==
    /\ response = NoResponse
    /\ \A t \in Threads : pc[t] = "idle"
    /\ SafeRoutesReturns(slat, slon, elat, elon,
                         get_hyperlocal_aqi((slat + elat) \div 2, (slon + elon) \div 2,
                                            DefaultRadius, station_distance))
    /\ UNCHANGED <<thread_locals, services>>

CallSafeRoutes ==
    \E s \in Points, e \in Points : GetSafeRoutes(s[1], s[2], e[1], e[2])

Next == CallHyperlocal \/ CallSafeRoutes \/ TakeResponse

Spec == Init /\ [][Next]_vars

----------------------------------------------------------------------------
(* get_safe_routes with its route_type argument *)

\* route_type: the default and two other values a caller may pass
RouteTypes == {"optimal", "fastest", "cleanest"}

\* mutant: route_type 'fastest' returns the direct route alone
get_safe_routes_fastest_direct(slat, slon, elat, elon, route_type, direct_route) ==
    IF route_type = "fastest" THEN Returned(<<direct_route>>)
    ELSE get_safe_routes(slat, slon, elat, elon, direct_route)

\* the body of get_safe_routes never reads route_type
get_safe_routes_of_type(slat, slon, elat, elon, route_type, direct_route) ==
    get_safe_routes(slat, slon, elat, elon, direct_route)

TypedRoutesRequest(slat, slon, elat, elon, route_type) ==
    [op |-> "get_safe_routes", start_lat |-> slat, start_lon |-> slon,
     end_lat |-> elat, end_lon |-> elon, route_type |-> route_type]

\* the call's effect; the direct route built from the midpoint AQI (the part
\* that depends on the clock and the random draws) is kept with the result
TypedSafeRoutesReturns(slat, slon, elat, elon, route_type, mid_call) ==
    /\ station_distance' = mid_call.attr
    /\ \E mid_aqi_data \in mid_call.results :
          response' = [op |-> "get_safe_routes", thread |-> "t1",
                       request |-> TypedRoutesRequest(slat, slon, elat, elon, route_type),
                       direct_route |-> generate_direct_route(slat, slon, elat, elon,
                                                              mid_aqi_data.aqi),
                       result |-> get_safe_routes_of_type(slat, slon, elat, elon, route_type,
                                     generate_direct_route(slat, slon, elat, elon,
                                                           mid_aqi_data.aqi))]

GetSafeRoutesOfType(slat, slon, elat, elon, route_type) ==
    /\ response = NoResponse
    /\ \A t \in Threads : pc[t] = "idle"
    /\ TypedSafeRoutesReturns(slat, slon, elat, elon, route_type,
                              get_hyperlocal_aqi((slat + elat) \div 2, (slon + elon) \div 2,
                                                 DefaultRadius, station_distance))
    /\ UNCHANGED <<thread_locals, services>>

NumTypedPoints == 3

\* start and end points of the calls that pass a route_type
TypedPoints == {PointList[i] : i \in 1..Min(NumTypedPoints, Len(PointList))}

CallSafeRoutesOfType ==
    \E s \in TypedPoints, e \in TypedPoints, rt \in RouteTypes :
        GetSafeRoutesOfType(s[1], s[2], e[1], e[2], rt)

NextRouteType == CallSafeRoutesOfType \/ TakeResponse

SpecRouteType == Init /\ [][NextRouteType]_vars

----------------------------------------------------------------------------
(* get_hyperlocal_aqi alone, called again and again on one system object *)

\* query points: Central Delhi, the Mayapuri station (nearer to it than the
\* stations registered before it), a point with no station within 2 km,
\* Rajiv Chowk / ITO
NearPointList ==
    <<<<2861390, 7720900>>, <<2862890, 7720650>>, <<2855000, 7715000>>,
      <<2863150, 7721670>>>>

NumNearPoints == 3

NearPoints == {NearPointList[i] : i \in 1..Min(NumNearPoints, Len(NearPointList))}

CallHyperlocalNear ==
    \E p \in NearPoints, r \in Radii : GetHyperlocalAqi(p[1], p[2], r)

NextHyperlocal == CallHyperlocalNear \/ TakeResponse

SpecHyperlocal == Init /\ [][NextHyperlocal]_vars

----------------------------------------------------------------------------
(* Two request threads inside get_hyperlocal_aqi (app.run(threaded=True)).   *)
(* A thread can be preempted between the loop of _find_nearby_stations, its  *)
(* sorted() call, _interpolate_aqi and the return statement; each of these   *)
(* reads or writes the .distance attributes of the shared Location objects.  *)

NumThreadPoints == 3

ThreadPoints == {PointList[i] : i \in 1..Min(NumThreadPoints, Len(PointList))}

Begin(t) ==
    /\ response = NoResponse
    /\ pc[t] = "idle"
    /\ \E p \in ThreadPoints, r \in Radii :
          req' = [req EXCEPT ![t] = HyperlocalRequest(p[1], p[2], r)]
    /\ pc' = [pc EXCEPT ![t] = "find"]
    /\ UNCHANGED <<station_distance, nearby, interpolated, response, services>>

\* the for loop of _find_nearby_stations
FindLoop(t) ==
    /\ response = NoResponse
    /\ pc[t] = "find"
    /\ station_distance' =
          DistanceWritten(req[t].latitude, req[t].longitude, req[t].radius, station_distance)
    /\ nearby' = [nearby EXCEPT
                     ![t] = StationsWithin(req[t].latitude, req[t].longitude, req[t].radius)]
    /\ pc' = [pc EXCEPT ![t] = "sort"]
    /\ UNCHANGED <<req, interpolated, response, services>>

\* return sorted(nearby, key=lambda x: x.distance)
SortStep(t) ==
    /\ response = NoResponse
    /\ pc[t] = "sort"
    /\ nearby' = [nearby EXCEPT ![t] = SortNearby(nearby[t], station_distance)]
    /\ pc' = [pc EXCEPT ![t] = "found"]
    /\ UNCHANGED <<station_distance, req, interpolated, response, services>>

Finished(t) ==
    /\ pc' = [pc EXCEPT ![t] = "idle"]
    /\ req' = [req EXCEPT ![t] = NoRequest]
    /\ nearby' = [nearby EXCEPT ![t] = <<>>]
    /\ interpolated' = [interpolated EXCEPT ![t] = NoBase]

\* if not nearby_stations: return self._get_city_average_aqi()
ReturnCityAverage(t) ==
    /\ response = NoResponse
    /\ pc[t] = "found"
    /\ nearby[t] = <<>>
    /\ response' = [op |-> "get_hyperlocal_aqi", thread |-> t, request |-> req[t],
                    result |-> get_city_average_aqi]
    /\ Finished(t)
    /\ UNCHANGED <<station_distance, services>>

Interpolate(t) ==
    /\ response = NoResponse
    /\ pc[t] = "found"
    /\ nearby[t] # <<>>
    /\ \E base \in interpolate_aqi(nearby[t], station_distance) :
          interpolated' = [interpolated EXCEPT ![t] = base]
    /\ pc' = [pc EXCEPT ![t] = "adjust"]
    /\ UNCHANGED <<station_distance, req, nearby, response, services>>

\* the micro factors, the adjustment and the return statement
AdjustAndReturn(t) ==
    /\ response = NoResponse
    /\ pc[t] = "adjust"
    /\ \E r \in AdjustedResults(req[t].latitude, req[t].longitude, interpolated[t],
                                nearby[t], station_distance) :
          response' = [op |-> "get_hyperlocal_aqi", thread |-> t, request |-> req[t],
                       result |-> r]
    /\ Finished(t)
    /\ UNCHANGED <<station_distance, services>>

ThreadStep ==
    \E t \in Threads :
        \/ Begin(t)
        \/ FindLoop(t)
        \/ SortStep(t)
        \/ ReturnCityAverage(t)
        \/ Interpolate(t)
        \/ AdjustAndReturn(t)

NextThreaded == ThreadStep \/ TakeResponse

SpecThreaded == Init /\ [][NextThreaded]_vars

----------------------------------------------------------------------------
(* _adjust_aqi_for_local_factors alone, on arbitrary interpolated values *)

\* AQI and concentrations (tenths) the function is applied to
AdjustInputs == {0, 1000, 4100, 5000}

MaxExtraInput == 1

\* larger inputs: 600.0, 700.0, ...
ExtraInputs == {5000 + 1000 * i : i \in 1..MaxExtraInput}

InitAdjust ==
    /\ station_distance = [k \in StationKeys |-> NoDistance]
    /\ pc = [t \in Threads |-> IF t = "t1" THEN "adjust" ELSE "idle"]
    /\ req = [t \in Threads |-> NoRequest]
    /\ nearby = [t \in Threads |-> <<>>]
    /\ \E a \in AdjustInputs \cup ExtraInputs,
          p25 \in AdjustInputs \cup ExtraInputs,
          p10 \in AdjustInputs \cup ExtraInputs,
          n \in {0, 543},
          c \in {ConfidenceFloor, ConfidenceCeiling} :
          interpolated = [t \in Threads |->
                             IF t = "t1"
                             THEN [aqi |-> a,
                                   pollutants |-> [pm25 |-> p25, pm10 |-> p10, no2 |-> n],
                                   confidence |-> c]
                             ELSE NoBase]
    /\ response = NoResponse
    /\ ServicesInit

AdjustOnly ==
    /\ response = NoResponse
    /\ pc["t1"] = "adjust"
    /\ \E mf \in MicroFactorDraws :
          \E adj \in adjust_aqi_for_local_factors(interpolated["t1"], mf) :
              response' = [op |-> "_adjust_aqi_for_local_factors",
                           base_aqi |-> interpolated["t1"],
                           micro_factors |-> mf, result |-> adj]
    /\ UNCHANGED <<station_distance, thread_locals, services>>

NextAdjust == AdjustOnly \/ TakeResponse

SpecAdjust == InitAdjust /\ [][NextAdjust]_vars

----------------------------------------------------------------------------
(* get_neighborhood_air_quality *)

LatStep == 1000    \* lat_step = 0.01

LonStep == 1000    \* lon_step = 0.01

GridRadius == 1000    \* radius_km=1.0

\* the n-th point appended by the two nested loops over range(grid_size)
GridPoint(center_lat, center_lon, grid_size, n) ==
    [lat |-> center_lat + (((n - 1) \div grid_size) - (grid_size \div 2)) * LatStep,
     lon |-> center_lon + (((n - 1) % grid_size) - (grid_size \div 2)) * LonStep]

\* mutant: the inner loop over j left out, one row of points
GridSingleRow(center_lat, center_lon, grid_size) ==
    IF grid_size <= 0 THEN <<>>
    ELSE [n \in 1..grid_size |-> GridPoint(center_lat, center_lon, grid_size, n)]

\* range(grid_size) is empty for grid_size <= 0
create_air_quality_grid(center_lat, center_lon, grid_size) ==
    IF grid_size <= 0 THEN <<>>
    ELSE [n \in 1..(grid_size * grid_size) |->
             GridPoint(center_lat, center_lon, grid_size, n)]

GridEntry(point, aqi_data) ==
    [latitude |-> point.lat, longitude |-> point.lon, aqi |-> aqi_data.aqi,
     category |-> aqi_data.category, pollutants |-> aqi_data.pollutants]

RECURSIVE GridMapsFrom(_, _)

GridAfterCall(points, entries, attr) ==
    {[air_quality_map |-> <<e>> \o rest.air_quality_map, attr |-> rest.attr] :
        e \in entries, rest \in GridMapsFrom(Tail(points), attr)}

GridAfterPoint(points, call) ==
    GridAfterCall(points, {GridEntry(Head(points), r) : r \in call.results}, call.attr)

\* the loop over grid_points: one get_hyperlocal_aqi call per point, each
\* with its own draws; the maps it can build and the distances it leaves
GridMapsFrom(points, attr) ==
    IF points = <<>> THEN {[air_quality_map |-> <<>>, attr |-> attr]}
    ELSE GridAfterPoint(points,
             get_hyperlocal_aqi(Head(points).lat, Head(points).lon, GridRadius, attr))

AqiValues(air_quality_map) == [i \in DOMAIN air_quality_map |-> air_quality_map[i].aqi]

MinOf(values) ==
    CHOOSE v \in {values[i] : i \in DOMAIN values} : \A i \in DOMAIN values : v <= values[i]

MaxOf(values) ==
    CHOOSE v \in {values[i] : i \in DOMAIN values} : \A i \in DOMAIN values : v >= values[i]

\* min(air_quality_map, key=...) / max(...): the first entry with that aqi
FirstWithAqi(air_quality_map, v) ==
    air_quality_map[CHOOSE i \in DOMAIN air_quality_map :
                        /\ air_quality_map[i].aqi = v
                        /\ \A j \in 1..(i - 1) : air_quality_map[j].aqi # v]

\* _get_neighborhood_recommendations on the unrounded average sum / count
get_neighborhood_recommendations(sum, count, min_aqi, max_aqi) ==
    (IF sum > 2000 * count
     THEN <<"Consider indoor activities for the neighborhood">> ELSE <<>>)
    \o (IF max_aqi - min_aqi > 1000
        THEN <<"Significant air quality variation - avoid high pollution areas">>
        ELSE <<>>)
    \o (IF min_aqi < 1000
        THEN <<"Some areas have good air quality - plan activities there">>
        ELSE <<>>)

Statistics(air_quality_map, sum, count, min_aqi, max_aqi) ==
    [average_aqi   : Nearest(sum, count),
     minimum_aqi   : {min_aqi},
     maximum_aqi   : {max_aqi},
     aqi_range     : {max_aqi - min_aqi},
     cleanest_spot : {FirstWithAqi(air_quality_map, min_aqi)},
     dirtiest_spot : {FirstWithAqi(air_quality_map, max_aqi)}]

NeighborhoodPayload(center_lat, center_lon, grid_size, air_quality_map, sum, count, min_aqi, max_aqi) ==
    {[center_latitude  |-> center_lat,
      center_longitude |-> center_lon,
      grid_size        |-> grid_size,
      air_quality_map  |-> air_quality_map,
      statistics       |-> st,
      recommendations  |-> get_neighborhood_recommendations(sum, count, min_aqi, max_aqi),
      timestamp        |-> "now"] :
        st \in Statistics(air_quality_map, sum, count, min_aqi, max_aqi)}

NeighborhoodOver(center_lat, center_lon, grid_size, air_quality_map, values) ==
    NeighborhoodPayload(center_lat, center_lon, grid_size, air_quality_map,
                        SumSeq(values), Len(values), MinOf(values), MaxOf(values))

\* sum(aqi_values) / len(aqi_values) raises ZeroDivisionError on an empty grid
NeighborhoodOutcomes(center_lat, center_lon, grid_size, built) ==
    IF built.air_quality_map = <<>>
    THEN {[attr |-> built.attr, result |-> Raised("ZeroDivisionError")]}
    ELSE {[attr |-> built.attr, result |-> [kind |-> "returned", value |-> v]] :
             v \in NeighborhoodOver(center_lat, center_lon, grid_size,
                                    built.air_quality_map,
                                    AqiValues(built.air_quality_map))}

get_neighborhood_air_quality(center_lat, center_lon, grid_size, attr) ==
    UNION {NeighborhoodOutcomes(center_lat, center_lon, grid_size, built) :
              built \in GridMapsFrom(
                            create_air_quality_grid(center_lat, center_lon, grid_size),
                            attr)}

\* centres: one grid step west of the North Delhi station, and one step north
\* and two steps east of it
GridCentres == {<<2870410, 7709250>>, <<2871410, 7712250>>}

MaxGridSize == 3

\* grid_size = int(request.args.get('grid_size', 5)): any integer
GridSizes == (-1)..MaxGridSize

NeighborhoodRequest(center_lat, center_lon, grid_size) ==
    [op |-> "get_neighborhood_air_quality", center_lat |-> center_lat,
     center_lon |-> center_lon, grid_size |-> grid_size]

GetNeighborhoodAirQuality(center_lat, center_lon, grid_size) ==
    /\ response = NoResponse
    /\ \A t \in Threads : pc[t] = "idle"
    /\ \E outcome \in get_neighborhood_air_quality(center_lat, center_lon, grid_size,
                                                   station_distance) :
          /\ station_distance' = outcome.attr
          /\ response' = [op |-> "get_neighborhood_air_quality", thread |-> "t1",
                          request |-> NeighborhoodRequest(center_lat, center_lon, grid_size),
                          result |-> outcome.result]
    /\ UNCHANGED <<thread_locals, services>>

CallNeighborhood ==
    \E c \in GridCentres, g \in GridSizes : GetNeighborhoodAirQuality(c[1], c[2], g)

NextNeighborhood == CallNeighborhood \/ TakeResponse

SpecNeighborhood == Init /\ [][NextNeighborhood]_vars

----------------------------------------------------------------------------
(* The /hyperlocal-aqi route handler. A query argument is absent or a text, *)
(* a sequence of characters; float() is modelled on decimal literals        *)
(* (sign, digits, one optional point) and raises ValueError on the rest.    *)

NoArg == [given |-> FALSE, text |-> <<>>]

Given(text) == [given |-> TRUE, text |-> text]

DigitValue ==
    [c \in {"0", "1", "2", "3", "4", "5", "6", "7", "8", "9"} |->
        CASE c = "0" -> 0 [] c = "1" -> 1 [] c = "2" -> 2 [] c = "3" -> 3
          [] c = "4" -> 4 [] c = "5" -> 5 [] c = "6" -> 6 [] c = "7" -> 7
          [] c = "8" -> 8 [] c = "9" -> 9]

AllDigits(text) == \A i \in DOMAIN text : text[i] \in DOMAIN DigitValue

RECURSIVE DigitsValue(_, _)
DigitsValue(text, acc) ==
    IF text = <<>> THEN acc
    ELSE DigitsValue(Tail(text), 10 * acc + DigitValue[Head(text)])

RECURSIVE PowerOfTen(_)
PowerOfTen(n) == IF n = 0 THEN 1 ELSE 10 * PowerOfTen(n - 1)

PointAt(text) ==
    IF \E i \in DOMAIN text : text[i] = "."
    THEN CHOOSE i \in DOMAIN text : text[i] = "." /\ \A j \in 1..(i - 1) : text[j] # "."
    ELSE Len(text) + 1

\* the value of whole.fraction in units of 10^-scale (digits past the scale
\* are dropped)
DecimalValue(whole, fraction, scale) ==
    DigitsValue(whole, 0) * PowerOfTen(scale)
        + DigitsValue(SubSeq(fraction \o [i \in 1..scale |-> "0"], 1, scale), 0)

ValueError(text) == [kind |-> "raised", error |-> "ValueError", text |-> text]

Parsed(value) == [kind |-> "value", value |-> value]

UnsignedFloat(text, whole, fraction, scale) ==
    IF AllDigits(whole) /\ AllDigits(fraction) /\ Len(whole) + Len(fraction) >= 1
    THEN Parsed(DecimalValue(whole, fraction, scale))
    ELSE ValueError(text)

SplitFloat(text, body, scale) ==
    UnsignedFloat(text, SubSeq(body, 1, PointAt(body) - 1),
                  SubSeq(body, PointAt(body) + 1, Len(body)), scale)

Negated(parsed) ==
    IF parsed.kind = "value" THEN Parsed(0 - parsed.value) ELSE parsed

\* float(text)
ParseFloat(text, scale) ==
    IF text = <<>> THEN ValueError(text)
    ELSE IF Head(text) = "-" THEN Negated(SplitFloat(text, Tail(text), scale))
    ELSE IF Head(text) = "+" THEN SplitFloat(text, Tail(text), scale)
    ELSE SplitFloat(text, text, scale)

\* float(request.args.get(name, default))
FloatArg(arg, default, scale) ==
    IF arg.given THEN ParseFloat(arg.text, scale) ELSE Parsed(default)

DefaultLat == 2861390

DefaultLon == 7720900

HandlerDefaultRadius == 2000

SuccessBodies(call) ==
    {[attr |-> call.attr,
      outcome |-> [kind |-> "returned", status_code |-> 200,
                   body |-> [status |-> "success", hyperlocal_aqi |-> r,
                             timestamp |-> "now"]]] : r \in call.results}

\* the try block: the three conversions in order, then the call
TryBlockParsed(lat, lon, radius, attr) ==
    IF lat.kind = "raised" THEN {[attr |-> attr, outcome |-> lat]}
    ELSE IF lon.kind = "raised" THEN {[attr |-> attr, outcome |-> lon]}
    ELSE IF radius.kind = "raised" THEN {[attr |-> attr, outcome |-> radius]}
    ELSE SuccessBodies(get_hyperlocal_aqi(lat.value, lon.value, radius.value, attr))

TryBlock(args, attr) ==
    TryBlockParsed(FloatArg(args.lat, DefaultLat, 5), FloatArg(args.lon, DefaultLon, 5),
                   FloatArg(args.radius, HandlerDefaultRadius, 3), attr)

\* except Exception as e: return jsonify({'status': 'error', ...}), 500
ExceptClause(o) ==
    IF o.outcome.kind = "raised"
    THEN [attr |-> o.attr,
          outcome |-> [kind |-> "returned", status_code |-> 500,
                       body |-> [status |-> "error",
                                 message |-> [error |-> o.outcome.error,
                                              text |-> o.outcome.text],
                                 timestamp |-> "now"]]]
    ELSE o

\* mutant: no try / except around the body of the view
hyperlocal_aqi_uncaught(args, attr) == TryBlock(args, attr)

\* the view function hyperlocal_aqi()
hyperlocal_aqi(args, attr) == {ExceptClause(o) : o \in TryBlock(args, attr)}

\* @app.errorhandler(500)
internal_error ==
    [status_code |-> 500,
     body |-> [error |-> "Internal server error",
               message |-> "An unexpected error occurred"]]

\* Flask: the view's return value is the response; an exception that leaves
\* the view goes to the registered 500 handler
Dispatch(outcome) ==
    IF outcome.kind = "raised" THEN internal_error
    ELSE [status_code |-> outcome.status_code, body |-> outcome.body]

Text2861390 == <<"2", "8", ".", "6", "1", "3", "9">>

Text2855 == <<"2", "8", ".", "5", "5">>

Text772090 == <<"7", "7", ".", "2", "0", "9", "0">>

Text7715 == <<"7", "7", ".", "1", "5">>

LatTexts ==
    {NoArg, Given(Text2861390), Given(Text2855), Given(<<"a", "b", "c">>), Given(<<>>)}

LonTexts == {NoArg, Given(Text772090), Given(Text7715), Given(<<"7", "7", ",", "2">>)}

RadiusTexts ==
    {NoArg, Given(<<"1">>), Given(<<"2", ".", "0">>), Given(<<"-", "1">>),
     Given(<<"t", "w", "o">>)}

HandleHyperlocalAqi(args) ==
    /\ response = NoResponse
    /\ \A t \in Threads : pc[t] = "idle"
    /\ \E o \in hyperlocal_aqi(args, station_distance) :
          /\ station_distance' = o.attr
          /\ response' = [op |-> "GET /hyperlocal-aqi", thread |-> "t1",
                          request |-> args, result |-> Dispatch(o.outcome)]
    /\ UNCHANGED <<thread_locals, services>>

RequestHyperlocalAqi ==
    \E lat \in LatTexts, lon \in LonTexts, radius \in RadiusTexts :
        HandleHyperlocalAqi([lat |-> lat, lon |-> lon, radius |-> radius])

NextHandler == RequestHyperlocalAqi \/ TakeResponse

SpecHandler == Init /\ [][NextHandler]_vars

----------------------------------------------------------------------------
(* PolicyEffectivenessTracker: the policy_tracker singleton. AQI values and  *)
(* reductions are in tenths, times in ticks of half a second.                *)

policy_benchmarks ==
    [odd_even |->
        [expected_reduction |-> 15, time_to_effect |-> 2, duration_effect |-> 8,
         cost_category |-> "low", implementation_time |-> "immediate"],
     construction_ban |->
        [expected_reduction |-> 25, time_to_effect |-> 4, duration_effect |-> 24,
         cost_category |-> "high", implementation_time |-> "1_day"],
     industrial_shutdown |->
        [expected_reduction |-> 30, time_to_effect |-> 1, duration_effect |-> 12,
         cost_category |-> "high", implementation_time |-> "immediate"],
     public_transport_incentive |->
        [expected_reduction |-> 12, time_to_effect |-> 6, duration_effect |-> 48,
         cost_category |-> "medium", implementation_time |-> "2_weeks"],
     smog_tower_activation |->
        [expected_reduction |-> 10, time_to_effect |-> 2, duration_effect |-> 24,
         cost_category |-> "high", implementation_time |-> "1_hour"],
     green_corridor |->
        [expected_reduction |-> 8, time_to_effect |-> 12, duration_effect |-> 168,
         cost_category |-> "medium", implementation_time |-> "1_month"]]

TicksPerSecond == 2

\* mutant: the identifier keeps the sub-second part of the clock
strftime_with_ticks(t) == t

\* datetime.now().strftime('%Y%m%d_%H%M%S'): the clock cut to whole seconds
strftime(t) == t \div TicksPerSecond

\* f"{policy_name}_{...}"
InterventionId(policy_name, t) == <<policy_name, strftime(t)>>

\* d[k] = v on a dict
Put(d, k, v) == [x \in DOMAIN d \cup {k} |-> IF x = k THEN v ELSE d[x]]

\* an Optional value: None, or Some(v)
None == <<>>

Some(v) == <<v>>

\* one draw of the simulated environment: _get_current_aqi_measurement
\* (max(50, min(500, 250 + normal(0, 20))), in tenths) and
\* _get_current_weather_conditions (temperature, humidity, wind speed and
\* visibility in tenths, pressure in tenths of hPa)
EnvironmentDraws ==
    {[aqi |-> 2700,
      weather |-> [temperature |-> 250, humidity |-> 500, wind_speed |-> 30,
                   wind_direction |-> "N", pressure |-> 10100, visibility |-> 50]],
     [aqi |-> 2300,
      weather |-> [temperature |-> 300, humidity |-> 400, wind_speed |-> 120,
                   wind_direction |-> "NW", pressure |-> 10150, visibility |-> 80]]}

PolicyIntervention(policy_name, target_sources, t) ==
    [name                |-> policy_name,
     start_time          |-> t,
     end_time            |-> None,
     policy_type         |-> policy_name,
     target_sources      |-> target_sources,
     expected_reduction  |-> policy_benchmarks[policy_name].expected_reduction,
     implementation_cost |-> policy_benchmarks[policy_name].cost_category,
     status              |-> "active"]

UnknownPolicyType == [error |-> "Unknown policy type"]

InterventionNotFound == [error |-> "Intervention not found"]

\* the value an operation of the tracker leaves behind: the three fields and
\* the returned dict
TrackerOutcome(ai, bm, hist, result) ==
    [active_interventions |-> ai, baseline_measurements |-> bm,
     effectiveness_history |-> hist, result |-> result]

StartResult(intervention_id, intervention, baseline_aqi) ==
    [intervention_id    |-> intervention_id,
     policy_name        |-> intervention.name,
     start_time         |-> intervention.start_time,
     expected_reduction |-> intervention.expected_reduction,
     baseline_aqi       |-> baseline_aqi,
     status             |-> "active"]

\* mutant: the baseline is not recorded
StartStoredWithoutBaseline(intervention_id, policy_name, target_sources, baseline_aqi, weather, t, ai, bm, hist) ==
    TrackerOutcome(
        Put(ai, intervention_id, PolicyIntervention(policy_name, target_sources, t)),
        bm, hist,
        StartResult(intervention_id, PolicyIntervention(policy_name, target_sources, t),
                    baseline_aqi))

\* the stores and the return of start_policy_intervention once the
\* identifier is formed
StartStored(intervention_id, policy_name, target_sources, baseline_aqi, weather, t, ai, bm, hist) ==
    TrackerOutcome(
        Put(ai, intervention_id, PolicyIntervention(policy_name, target_sources, t)),
        Put(bm, intervention_id,
            [aqi |-> baseline_aqi, timestamp |-> t, weather_conditions |-> weather]),
        hist,
        StartResult(intervention_id, PolicyIntervention(policy_name, target_sources, t),
                    baseline_aqi))

start_policy_intervention(policy_name, target_sources, baseline_aqi, weather, t, ai, bm, hist) ==
    IF policy_name \notin DOMAIN policy_benchmarks
    THEN TrackerOutcome(ai, bm, hist, UnknownPolicyType)
    ELSE StartStored(InterventionId(policy_name, t), policy_name, target_sources,
                     baseline_aqi, weather, t, ai, bm, hist)

\* _calculate_weather_adjustment, in hundredths before round(., 1):
\* wind * 2 - temperature * 0.5 - humidity * 0.3 - pressure * 0.1
WeatherAdjustment100(baseline_weather, current_weather) ==
    20 * (current_weather.wind_speed - baseline_weather.wind_speed)
        - 5 * (current_weather.temperature - baseline_weather.temperature)
        - 3 * (current_weather.humidity - baseline_weather.humidity)
        - (current_weather.pressure - baseline_weather.pressure)

calculate_weather_adjustment(baseline_weather, current_weather) ==
    Nearest(WeatherAdjustment100(baseline_weather, current_weather), 10)

TicksPerHour == 3600 * TicksPerSecond

\* _calculate_confidence_score, in units of 1/10000
calculate_confidence_score(elapsed_ticks, policy_type) ==
    Min(9500, Max(3000,
        IF elapsed_ticks < policy_benchmarks[policy_type].time_to_effect * TicksPerHour
        THEN 3000 + (4000 * elapsed_ticks)
                        \div (policy_benchmarks[policy_type].time_to_effect * TicksPerHour)
        ELSE 7000 + Min(2000,
                        ((elapsed_ticks
                            - policy_benchmarks[policy_type].time_to_effect * TicksPerHour)
                            * 10000) \div (24 * TicksPerHour))))

\* _get_effectiveness_status on a score in tenths of a percent
get_effectiveness_status(score) ==
    IF score > 900 THEN "excellent"
    ELSE IF score > 700 THEN "good"
    ELSE IF score > 500 THEN "moderate"
    ELSE IF score > 300 THEN "poor"
    ELSE "ineffective"

EffectivenessMeasurement(intervention_id, t, baseline_aqi, current_aqi, adjusted, confidence, adjustment) ==
    [intervention_id |-> intervention_id,
     timestamp       |-> t,
     before_aqi      |-> baseline_aqi,
     after_aqi       |-> current_aqi,
     reduction       |-> adjusted,
     confidence      |-> confidence,
     weather_factor  |-> adjustment,
     baseline_aqi    |-> baseline_aqi]

MeasureResult(intervention, m, score) ==
    [intervention_id     |-> m.intervention_id,
     policy_name         |-> intervention.name,
     measurement_time    |-> m.timestamp,
     before_aqi          |-> m.before_aqi,
     after_aqi           |-> m.after_aqi,
     raw_reduction       |-> m.before_aqi - m.after_aqi,
     weather_adjustment  |-> m.weather_factor,
     adjusted_reduction  |-> m.reduction,
     effectiveness_score |-> score,
     confidence          |-> m.confidence \div 100,
     status              |-> get_effectiveness_status(score)]

\* the measurement appended and the dict returned, for one rounding of the
\* weather adjustment
MeasureStored(intervention, m, ai, bm, hist) ==
    {TrackerOutcome(ai, bm, Append(hist, m), MeasureResult(intervention, m, score)) :
        score \in Nearest(m.reduction * 100, intervention.expected_reduction)}

MeasureTracked(intervention_id, current_aqi, current_weather, t, ai, bm, hist) ==
    UNION {MeasureStored(
               ai[intervention_id],
               EffectivenessMeasurement(
                   intervention_id, t, bm[intervention_id].aqi, current_aqi,
                   bm[intervention_id].aqi - current_aqi - adjustment,
                   calculate_confidence_score(t - ai[intervention_id].start_time,
                                              ai[intervention_id].policy_type),
                   adjustment),
               ai, bm, hist) :
           adjustment \in calculate_weather_adjustment(
                              bm[intervention_id].weather_conditions, current_weather)}

\* intervention_id is read from baseline_measurements without a test: KeyError
KeyErrorOutcome(ai, bm, hist) ==
    TrackerOutcome(ai, bm, hist, [kind |-> "raised", error |-> "KeyError"])

\* mutant: the `not in self.active_interventions` test left out
measure_effectiveness_unchecked(intervention_id, current_aqi, current_weather, t, ai, bm, hist) ==
    IF intervention_id \notin DOMAIN bm
    THEN {KeyErrorOutcome(ai, bm, hist)}
    ELSE MeasureTracked(intervention_id, current_aqi, current_weather, t, ai, bm, hist)

\* the set of outcomes of measure_effectiveness, one per rounding
measure_effectiveness(intervention_id, current_aqi, current_weather, t, ai, bm, hist) ==
    IF intervention_id \notin DOMAIN ai
    THEN {TrackerOutcome(ai, bm, hist, InterventionNotFound)}
    ELSE IF intervention_id \notin DOMAIN bm
    THEN {KeyErrorOutcome(ai, bm, hist)}
    ELSE MeasureTracked(intervention_id, current_aqi, current_weather, t, ai, bm, hist)

\* [m for m in self.effectiveness_history if m.intervention_id == intervention_id]
MeasurementsOf(hist, intervention_id) ==
    SelectSeq(hist, LAMBDA m : m.intervention_id = intervention_id)

Reductions(measurements) == [i \in DOMAIN measurements |-> measurements[i].reduction]

RECURSIVE MaxSeq(_)
MaxSeq(q) == IF Len(q) = 1 THEN q[1] ELSE Max(Head(q), MaxSeq(Tail(q)))

RECURSIVE MinSeq(_)
MinSeq(q) == IF Len(q) = 1 THEN q[1] ELSE Min(Head(q), MinSeq(Tail(q)))

CostFactor(cost) == IF cost = "medium" THEN 2 ELSE IF cost = "high" THEN 3 ELSE 1

\* _get_cost_effectiveness_rating on cost_factor / max(1, avg) and
\* avg / cost_factor, with avg = sum / (10 * count)
CostEffectivenessRating(cf, sum, count) ==
    IF sum > 100 * cf * count /\ sum > 200 * cf * count THEN "excellent"
    ELSE IF sum > 50 * cf * count /\ sum > 150 * cf * count THEN "good"
    ELSE IF 3 * sum > 100 * cf * count /\ sum > 100 * cf * count THEN "moderate"
    ELSE "poor"

calculate_cost_effectiveness(intervention, sum, count) ==
    [cost_category |-> intervention.implementation_cost,
     rating |-> CostEffectivenessRating(CostFactor(intervention.implementation_cost),
                                        sum, count)]

\* the statistics block of end_policy_intervention over the reductions
EndStatistics(reductions, average) ==
    [average_reduction |-> average,
     maximum_reduction |-> MaxSeq(reductions),
     minimum_reduction |-> MinSeq(reductions),
     measurement_count |-> Len(reductions)]

NoStatistics ==
    [average_reduction |-> 0, maximum_reduction |-> 0, minimum_reduction |-> 0,
     measurement_count |-> 0]

EndResult(intervention_id, intervention, final_effectiveness, stats, cost_effectiveness) ==
    [intervention_id     |-> intervention_id,
     policy_name         |-> intervention.name,
     start_time          |-> intervention.start_time,
     end_time            |-> intervention.end_time,
     duration_ticks      |-> intervention.end_time[1] - intervention.start_time,
     final_effectiveness |-> final_effectiveness,
     statistics          |-> stats,
     cost_effectiveness  |-> cost_effectiveness]

\* mutant: the statistics taken over the measurements made before the final one
EndMeasuredBefore(intervention_id, measured, reductions) ==
    IF Len(reductions) <= 1
    THEN {[measured EXCEPT !.result =
              EndResult(intervention_id, measured.active_interventions[intervention_id],
                        measured.result, NoStatistics, 0)]}
    ELSE {[measured EXCEPT !.result =
              EndResult(intervention_id, measured.active_interventions[intervention_id],
                        measured.result,
                        EndStatistics(SubSeq(reductions, 1, Len(reductions) - 1), average),
                        calculate_cost_effectiveness(
                            measured.active_interventions[intervention_id],
                            SumSeq(reductions), Len(reductions)))] :
           average \in Nearest(SumSeq(SubSeq(reductions, 1, Len(reductions) - 1)),
                               Len(reductions) - 1)}

\* end_policy_intervention after its measure_effectiveness call returned
\* `measured`; reductions are those of the intervention's measurements
EndMeasured(intervention_id, measured, reductions) ==
    IF "kind" \in DOMAIN measured.result THEN {measured}
    ELSE IF reductions = <<>>
    THEN {[measured EXCEPT !.result =
              EndResult(intervention_id, measured.active_interventions[intervention_id],
                        measured.result, NoStatistics, 0)]}
    ELSE {[measured EXCEPT !.result =
              EndResult(intervention_id, measured.active_interventions[intervention_id],
                        measured.result, EndStatistics(reductions, average),
                        calculate_cost_effectiveness(
                            measured.active_interventions[intervention_id],
                            SumSeq(reductions), Len(reductions)))] :
           average \in Nearest(SumSeq(reductions), Len(reductions))}

\* intervention.end_time = datetime.now(); intervention.status = 'completed'
Completed(intervention, t) ==
    [intervention EXCEPT !.end_time = Some(t), !.status = "completed"]

EndTracked(intervention_id, current_aqi, current_weather, t, ai, bm, hist) ==
    UNION {EndMeasured(intervention_id, measured,
                       Reductions(MeasurementsOf(measured.effectiveness_history,
                                                 intervention_id))) :
           measured \in measure_effectiveness(intervention_id, current_aqi, current_weather,
                                              t, ai, bm, hist)}

end_policy_intervention(intervention_id, current_aqi, current_weather, t, ai, bm, hist) ==
    IF intervention_id \notin DOMAIN ai
    THEN {TrackerOutcome(ai, bm, hist, InterventionNotFound)}
    ELSE EndTracked(intervention_id, current_aqi, current_weather, t,
                    Put(ai, intervention_id, Completed(ai[intervention_id], t)), bm, hist)

\* the measurements whose intervention_id get_policy_analytics finds in
\* active_interventions (`if intervention:`)
Attributed(ai, hist) == SelectSeq(hist, LAMBDA m : m.intervention_id \in DOMAIN ai)

PolicyStats(ai, hist, policy_type) ==
    SelectSeq(Attributed(ai, hist), LAMBDA m : ai[m.intervention_id].policy_type = policy_type)

PolicyTypeAnalytics(measurements, policy_type) ==
    [total_interventions |->
        Cardinality({measurements[i].intervention_id : i \in DOMAIN measurements}),
     measurements        |-> Len(measurements),
     cost_category       |-> policy_benchmarks[policy_type].cost_category,
     expected_reduction  |-> policy_benchmarks[policy_type].expected_reduction]

StatusCount(ai, status) == Cardinality({k \in DOMAIN ai : ai[k].status = status})

AnalyticsOver(ai, hist, policy_types) ==
    \* max() over an empty policy_analytics in _get_policy_recommendations
    IF policy_types = {} THEN [kind |-> "raised", error |-> "ValueError"]
    ELSE [policy_analytics |->
             [pt \in policy_types |-> PolicyTypeAnalytics(PolicyStats(ai, hist, pt), pt)],
          overall_statistics |->
             [total_measurements      |-> Len(hist),
              active_interventions    |-> StatusCount(ai, "active"),
              completed_interventions |-> StatusCount(ai, "completed")]]

get_policy_analytics(ai, hist) ==
    IF hist = <<>> THEN [message |-> "No policy interventions tracked yet"]
    ELSE AnalyticsOver(ai, hist,
                       {ai[Attributed(ai, hist)[i].intervention_id].policy_type :
                            i \in DOMAIN Attributed(ai, hist)})

\* _calculate_aqi_factor, in tenths
calculate_aqi_factor(current_aqi) ==
    IF current_aqi > 300 THEN 13
    ELSE IF current_aqi > 200 THEN 11
    ELSE IF current_aqi > 100 THEN 10
    ELSE 8

\* _calculate_weather_impact_factor, in tenths
calculate_weather_impact_factor(wind_speed) ==
    IF wind_speed < 3 THEN 12 ELSE IF wind_speed > 10 THEN 8 ELSE 10

\* _calculate_time_factor, in tenths
calculate_time_factor(hour) ==
    IF (7 <= hour /\ hour <= 10) \/ (17 <= hour /\ hour <= 20) THEN 11
    ELSE IF 22 <= hour \/ hour <= 5 THEN 9
    ELSE 10

HourOf(t) == (t \div TicksPerHour) % 24

\* _calculate_prediction_confidence, in hundredths: 0.5 without history, 0.6
\* with one value, max(0.3, 1 - stdev / mean) otherwise (the two ends of its
\* range), times 1.1 for an AQI in [150, 300], at most 0.95
PredictionConfidence(historical_count, current_aqi) ==
    {Min(95, IF 150 <= current_aqi /\ current_aqi <= 300 THEN (c * 11) \div 10 ELSE c) :
        c \in IF historical_count = 0 THEN {50}
              ELSE IF historical_count = 1 THEN {60}
              ELSE {30, 100}}

Predicted(policy_name, current_conditions, t, historical_count) ==
    {[policy_name         |-> policy_name,
      current_aqi         |-> current_conditions.aqi,
      base_effectiveness  |-> policy_benchmarks[policy_name].expected_reduction,
      predicted_reduction |-> predicted,
      confidence          |-> confidence,
      implementation_time |-> policy_benchmarks[policy_name].implementation_time,
      cost_category       |-> policy_benchmarks[policy_name].cost_category] :
        predicted \in Nearest(policy_benchmarks[policy_name].expected_reduction
                                * calculate_aqi_factor(current_conditions.aqi)
                                * calculate_weather_impact_factor(current_conditions.wind_speed)
                                * calculate_time_factor(HourOf(t)), 100),
        confidence \in PredictionConfidence(historical_count, current_conditions.aqi)}

\* _get_historical_effectiveness reads .policy_type of
\* active_interventions.get(id, {}): AttributeError on an id that is not a key
PredictKnown(policy_name, current_conditions, t, ai, hist) ==
    IF \E i \in DOMAIN hist : hist[i].intervention_id \notin DOMAIN ai
    THEN {[kind |-> "raised", error |-> "AttributeError"]}
    ELSE Predicted(policy_name, current_conditions, t, Len(PolicyStats(ai, hist, policy_name)))

predict_intervention_effectiveness(policy_name, current_conditions, t, ai, hist) ==
    IF policy_name \notin DOMAIN policy_benchmarks THEN {UnknownPolicyType}
    ELSE PredictKnown(policy_name, current_conditions, t, ai, hist)

\* policy names a caller passes: one of the table and one outside it
PolicyNames == {"odd_even", "carpool_lanes"}

\* an identifier no start has produced
UntrackedId == <<"odd_even", -1>>

InterventionIds == DOMAIN active_interventions \cup {UntrackedId}

\* current_conditions of a prediction: the defaults, and a polluted calm day
Conditions == {[aqi |-> 200, wind_speed |-> 5], [aqi |-> 350, wind_speed |-> 2]}

MaxTicks == 2

MaxMeasurements == 2

TrackerReturns(op, request, outcome) ==
    /\ active_interventions' = outcome.active_interventions
    /\ baseline_measurements' = outcome.baseline_measurements
    /\ effectiveness_history' = outcome.effectiveness_history
    /\ response' = [op |-> op, request |-> request, result |-> outcome.result]

hyperlocal == <<station_distance, thread_locals>>

StartPolicyIntervention ==
    /\ response = NoResponse
    /\ \E policy_name \in PolicyNames, env \in EnvironmentDraws :
          TrackerReturns("start_policy_intervention", [policy_name |-> policy_name],
                         start_policy_intervention(policy_name, <<>>, env.aqi, env.weather,
                                                   now, active_interventions,
                                                   baseline_measurements,
                                                   effectiveness_history))
    /\ UNCHANGED <<hyperlocal, now, cache, engine>>

MeasureEffectiveness ==
    /\ response = NoResponse
    /\ Len(effectiveness_history) < MaxMeasurements
    /\ \E id \in InterventionIds, env \in EnvironmentDraws :
          \E outcome \in measure_effectiveness(id, env.aqi, env.weather, now,
                                               active_interventions, baseline_measurements,
                                               effectiveness_history) :
              TrackerReturns("measure_effectiveness", [intervention_id |-> id], outcome)
    /\ UNCHANGED <<hyperlocal, now, cache, engine>>

EndPolicyIntervention ==
    /\ response = NoResponse
    /\ Len(effectiveness_history) < MaxMeasurements
    /\ \E id \in InterventionIds, env \in EnvironmentDraws :
          \E outcome \in end_policy_intervention(id, env.aqi, env.weather, now,
                                                 active_interventions, baseline_measurements,
                                                 effectiveness_history) :
              TrackerReturns("end_policy_intervention", [intervention_id |-> id], outcome)
    /\ UNCHANGED <<hyperlocal, now, cache, engine>>

GetPolicyAnalytics ==
    /\ response = NoResponse
    /\ response' = [op |-> "get_policy_analytics", request |-> <<>>,
                    result |-> get_policy_analytics(active_interventions,
                                                    effectiveness_history)]
    /\ UNCHANGED <<hyperlocal, services>>

PredictInterventionEffectiveness ==
    /\ response = NoResponse
    /\ \E policy_name \in PolicyNames, current_conditions \in Conditions :
          \E result \in predict_intervention_effectiveness(
                            policy_name, current_conditions, now,
                            active_interventions, effectiveness_history) :
              response' = [op |-> "predict_intervention_effectiveness",
                           request |-> [policy_name |-> policy_name], result |-> result]
    /\ UNCHANGED <<hyperlocal, services>>

\* the clock moves on by half a second
Tick ==
    /\ response = NoResponse
    /\ now < MaxTicks
    /\ now' = now + 1
    /\ UNCHANGED <<hyperlocal, response, tracker, cache, engine>>

----------------------------------------------------------------------------
(* PolicyEnforcementEngine: the policy_enforcement_engine singleton.         *)
(* Compliance rates are in hundredths.                                       *)

\* the keys of intervention_templates
TemplateIds == {"odd_even_vehicle", "industrial_emission", "construction_dust", "stubble_burning"}

\* the compliance_rate each simulated data source reports
SourceRate ==
    [traffic_data |-> 85, industrial_data |-> 84, construction_data |-> 79,
     satellite_data |-> 75, iot_sensor_data |-> 88]

\* get_data_weight, in hundredths
DataWeight ==
    [traffic_data |-> 30, industrial_data |-> 25, construction_data |-> 20,
     satellite_data |-> 15, iot_sensor_data |-> 10]

\* get_compliance_data: the sources that report for a policy
SourcesOf(policy_id) ==
    (IF policy_id \in {"odd_even_vehicle", "traffic_management"} THEN {"traffic_data"} ELSE {})
    \cup (IF policy_id \in {"industrial_emission", "industrial_control"}
          THEN {"industrial_data"} ELSE {})
    \cup (IF policy_id \in {"construction_dust", "construction_control"}
          THEN {"construction_data"} ELSE {})
    \cup (IF policy_id \in {"stubble_burning", "agricultural_control"}
          THEN {"satellite_data"} ELSE {})
    \cup {"iot_sensor_data"}

RECURSIVE SumOver(_, _)
SumOver(f, keys) ==
    IF keys = {} THEN 0
    ELSE LET k == CHOOSE x \in keys : TRUE IN f[k] + SumOver(f, keys \ {k})

\* analyze_compliance: the weighted mean of the reported rates (cut to a
\* hundredth)
OverallCompliance(sources) ==
    SumOver([k \in sources |-> SourceRate[k] * DataWeight[k]], sources)
        \div SumOver(DataWeight, sources)

ComplianceStatus(rate) ==
    IF rate >= 90 THEN "compliant"
    ELSE IF rate >= 70 THEN "active"
    ELSE IF rate >= 50 THEN "under_review"
    ELSE "violated"

\* detect_violations: one for an overall rate below 0.7, one per source
\* below 0.7
ViolationCount(sources) ==
    (IF OverallCompliance(sources) < 70 THEN 1 ELSE 0)
        + Cardinality({k \in sources : SourceRate[k] < 70})

\* trigger_interventions: one log entry per violation of a policy that has
\* a template
Triggered(policy_id, count) ==
    IF policy_id \in TemplateIds
    THEN [i \in 1..count |-> [policy_id |-> policy_id, status |-> "triggered"]]
    ELSE <<>>

EngineOutcome(ap, cm, intv, result) ==
    [active_policies |-> ap, compliance_monitoring |-> cm,
     automated_interventions |-> intv, result |-> result]

PolicyNotFound == [status |-> "error", message |-> "Policy not found"]

\* monitor_policy_compliance for a policy that is registered
MonitorRegistered(policy_id, sources, t, ap, cm, intv) ==
    EngineOutcome(
        ap,
        Put(cm, policy_id,
            [last_updated    |-> t,
             compliance_rate |-> OverallCompliance(sources),
             violations      |-> ViolationCount(sources),
             status          |-> ComplianceStatus(OverallCompliance(sources))]),
        intv \o Triggered(policy_id, ViolationCount(sources)),
        [policy_id               |-> policy_id,
         compliance_rate         |-> OverallCompliance(sources),
         status                  |-> ComplianceStatus(OverallCompliance(sources)),
         violations              |-> ViolationCount(sources),
         interventions_triggered |->
             Len(intv \o Triggered(policy_id, ViolationCount(sources))),
         timestamp               |-> t])

\* mutant: a policy that is not registered is registered on first sight
monitor_policy_compliance_registering(policy_id, t, ap, cm, intv) ==
    MonitorRegistered(policy_id, SourcesOf(policy_id), t,
                      Put(ap, policy_id, [id |-> policy_id]), cm, intv)

\* `policy = self.active_policies.get(policy_id); if not policy: return ...`
monitor_policy_compliance(policy_id, t, ap, cm, intv) ==
    IF policy_id \notin DOMAIN ap THEN EngineOutcome(ap, cm, intv, PolicyNotFound)
    ELSE MonitorRegistered(policy_id, SourcesOf(policy_id), t, ap, cm, intv)

get_enforcement_summary(ap, cm, intv) ==
    [active_policies     |-> Cardinality(DOMAIN ap),
     monitored_locations |-> Cardinality(DOMAIN cm),
     total_interventions |-> Len(intv),
     recent_violations   |-> Cardinality({k \in DOMAIN cm : cm[k].status = "violated"})]

\* the policy ids the enforcement-status handler monitors, and one more
PolicyIds == TemplateIds \cup {"traffic_management"}

MonitorReturns(policy_id, outcome) ==
    /\ active_policies' = outcome.active_policies
    /\ compliance_monitoring' = outcome.compliance_monitoring
    /\ automated_interventions' = outcome.automated_interventions
    /\ response' = [op |-> "monitor_policy_compliance",
                    request |-> [policy_id |-> policy_id], result |-> outcome.result]

MonitorPolicyCompliance ==
    /\ response = NoResponse
    /\ \E policy_id \in PolicyIds :
          MonitorReturns(policy_id,
                         monitor_policy_compliance(policy_id, now, active_policies,
                                                   compliance_monitoring,
                                                   automated_interventions))
    /\ UNCHANGED <<hyperlocal, now, tracker, cache>>

GetEnforcementSummary ==
    /\ response = NoResponse
    /\ response' = [op |-> "get_enforcement_summary", request |-> <<>>,
                    result |-> get_enforcement_summary(active_policies,
                                                       compliance_monitoring,
                                                       automated_interventions)]
    /\ UNCHANGED <<hyperlocal, services>>

NextPolicy ==
    \/ StartPolicyIntervention
    \/ MeasureEffectiveness
    \/ EndPolicyIntervention
    \/ GetPolicyAnalytics
    \/ PredictInterventionEffectiveness
    \/ MonitorPolicyCompliance
    \/ GetEnforcementSummary
    \/ Tick
    \/ TakeResponse

SpecPolicy == Init /\ [][NextPolicy]_vars

----------------------------------------------------------------------------
(* FreeAPIIntegration: the free_api singleton. The remote feeds answer or    *)
(* fail; concentrations are in tenths.                                       *)

\* self.cache_duration = 600 seconds, in ticks
CacheDuration == 600 * TicksPerSecond

\* what api.waqi.info/feed/<city>/ reports when it answers
WaqiFeed ==
    [Delhi       |-> [aqi |-> 312, pm25 |-> 1480, name |-> "Delhi"],
     NewDelhi    |-> [aqi |-> 287, pm25 |-> 1310, name |-> "New Delhi US Embassy"],
     Gurgaon     |-> [aqi |-> 198, pm25 |-> 905, name |-> "Vikas Sadan, Gurgaon"]]

\* the stations list of get_multiple_stations
Stations ==
    <<[name |-> "Central Delhi", city |-> "Delhi"],
      [name |-> "New Delhi", city |-> "NewDelhi"],
      [name |-> "Gurgaon", city |-> "Gurgaon"]>>

get_fallback_data(t) ==
    [aqi |-> 245, pm25 |-> 1125, station_name |-> "Delhi-NCR", timestamp |-> t,
     source |-> "Fallback"]

WaqiResult(city, t) ==
    [aqi |-> WaqiFeed[city].aqi, pm25 |-> WaqiFeed[city].pm25,
     station_name |-> WaqiFeed[city].name, timestamp |-> t, source |-> "WAQI"]

CacheEntry(data, t) == [data |-> data, timestamp |-> t]

ApiOutcome(c, result) == [cache |-> c, result |-> result]

\* get_waqi_data: an answer with status 'ok' is stored under 'waqi', whatever
\* the city; anything else gives the fallback data and leaves the cache
get_waqi_data(city, answered, t, c) ==
    IF answered
    THEN ApiOutcome(Put(c, "waqi", CacheEntry(WaqiResult(city, t), t)), WaqiResult(city, t))
    ELSE ApiOutcome(c, get_fallback_data(t))

OpenWeatherResult(t) ==
    [aqi |-> 200, pm25 |-> 987, timestamp |-> t, source |-> "OpenWeatherMap"]

\* get_openweather_air_quality: the fallback without an API key or an
\* answer, else the reading, stored under 'openweather'
get_openweather_air_quality(answered, t, c) ==
    IF answered
    THEN ApiOutcome(Put(c, "openweather", CacheEntry(OpenWeatherResult(t), t)),
                    OpenWeatherResult(t))
    ELSE ApiOutcome(c, get_fallback_data(t))

\* get_cached_data: the entry's data while it is younger than cache_duration
get_cached_data(source, t, c) ==
    IF source \in DOMAIN c /\ t - c[source].timestamp < CacheDuration
    THEN Some(c[source].data)
    ELSE None

\* data['station_name'] = station['name'] on the dict get_waqi_data returned:
\* for an answered fetch that dict is also the one the cache entry holds
Renamed(outcome, answered, name) ==
    IF answered
    THEN ApiOutcome(Put(outcome.cache, "waqi",
                        [outcome.cache["waqi"] EXCEPT !.data.station_name = name]),
                    [outcome.result EXCEPT !.station_name = name])
    ELSE ApiOutcome(outcome.cache, [outcome.result EXCEPT !.station_name = name])

RECURSIVE StationsFrom(_, _, _, _, _)
\* the loop of get_multiple_stations from station i on; time.sleep(0.5) is
\* one tick
StationsFrom(i, answers, t, c, results) ==
    IF i > Len(Stations) THEN [cache |-> c, result |-> results, now |-> t]
    ELSE StationsFrom(i + 1, answers, t + 1,
                      Renamed(get_waqi_data(Stations[i].city, answers[i], t, c),
                              answers[i], Stations[i].name).cache,
                      Append(results,
                             Renamed(get_waqi_data(Stations[i].city, answers[i], t, c),
                                     answers[i], Stations[i].name).result))

get_multiple_stations(answers, t, c) == StationsFrom(1, answers, t, c, <<>>)

Served(outcome, from) == [cache |-> outcome.cache, result |-> outcome.result, served |-> from]

\* get_real_time_aqi once the cache missed and WAQI gave the fallback
RealTimeAfterWaqi(openweather_answered, t, c) ==
    IF openweather_answered
    THEN Served(get_openweather_air_quality(TRUE, t, c), "openweather")
    ELSE Served(ApiOutcome(c, get_fallback_data(t)), "fallback")

RealTimeUncached(waqi_answered, openweather_answered, t, c) ==
    IF waqi_answered THEN Served(get_waqi_data("Delhi", TRUE, t, c), "waqi")
    ELSE RealTimeAfterWaqi(openweather_answered, t, c)

get_real_time_aqi(waqi_answered, openweather_answered, t, c) ==
    IF get_cached_data("waqi", t, c) # None
    THEN Served(ApiOutcome(c, get_cached_data("waqi", t, c)[1]), "cache")
    ELSE RealTimeUncached(waqi_answered, openweather_answered, t, c)

Cities == DOMAIN WaqiFeed

GetWaqiData ==
    /\ response = NoResponse
    /\ \E city \in Cities, answered \in BOOLEAN :
          /\ cache' = get_waqi_data(city, answered, now, cache).cache
          /\ response' = [op |-> "get_waqi_data", request |-> [city |-> city],
                          result |-> get_waqi_data(city, answered, now, cache).result]
    /\ UNCHANGED <<hyperlocal, now, tracker, engine>>

\* sweeps of get_multiple_stations allowed between two waits
MaxSweeps == 1

GetMultipleStations ==
    /\ response = NoResponse
    /\ now % CacheDuration < Len(Stations) * MaxSweeps
    /\ \E answers \in [1..Len(Stations) -> BOOLEAN] :
          /\ cache' = get_multiple_stations(answers, now, cache).cache
          /\ now' = get_multiple_stations(answers, now, cache).now
          /\ response' = [op |-> "get_multiple_stations", request |-> <<>>,
                          result |-> get_multiple_stations(answers, now, cache).result]
    /\ UNCHANGED <<hyperlocal, tracker, engine>>

GetRealTimeAqi ==
    /\ response = NoResponse
    /\ \E waqi_answered \in BOOLEAN, openweather_answered \in BOOLEAN :
          /\ cache' = get_real_time_aqi(waqi_answered, openweather_answered, now, cache).cache
          /\ response' =
                [op |-> "get_real_time_aqi", request |-> <<>>,
                 served |-> get_real_time_aqi(waqi_answered, openweather_answered,
                                              now, cache).served,
                 result |-> get_real_time_aqi(waqi_answered, openweather_answered,
                                              now, cache).result]
    /\ UNCHANGED <<hyperlocal, now, tracker, engine>>

\* waits of half the cache duration
MaxWaits == 3

Wait ==
    /\ response = NoResponse
    /\ now < MaxWaits * (CacheDuration \div 2)
    /\ now' = now + CacheDuration \div 2
    /\ UNCHANGED <<hyperlocal, response, tracker, cache, engine>>

NextFreeApi == GetWaqiData \/ GetMultipleStations \/ GetRealTimeAqi \/ Wait \/ TakeResponse

SpecFreeApi == Init /\ [][NextFreeApi]_vars

----------------------------------------------------------------------------
(* Properties *)

HyperlocalReturned == response.op = "get_hyperlocal_aqi"

InterpolatedReturned ==
    HyperlocalReturned /\ "nearby_stations" \in DOMAIN response.result

SafeRoutesCalled == response.op = "get_safe_routes"

RoutesReturned == SafeRoutesCalled /\ response.result.kind = "returned"

RequestDistance ==
    Distance(response.request.start_lat, response.request.start_lon,
             response.request.end_lat, response.request.end_lon)

SegmentTags(route) == {route.segments[i].route_type : i \in DOMAIN route.segments}

ReturnedRouteSet == {response.result.routes[i] : i \in DOMAIN response.result.routes}

\* C1: under every interleaving of two get_hyperlocal_aqi calls, the value a
\* call returns (nearby_stations distances, interpolated values, confidence)
\* is one the call produces from its own query point when it runs alone.
C1_NoInterference ==
    HyperlocalReturned =>
        response.result \in
            get_hyperlocal_aqi(response.request.latitude, response.request.longitude,
                               response.request.radius, station_distance).results

\* C2 as stated: every result of get_hyperlocal_aqi reports a confidence in
\* [0.3, 0.95].
C2_ConfidenceWithinClamp ==
    HyperlocalReturned =>
        /\ response.result.confidence >= 30
        /\ response.result.confidence <= 95

\* C2 amended: the clamp to [0.3, 0.95] is applied before the micro-adjustment,
\* which multiplies the confidence by 0.95 and rounds it; every interpolated
\* result reports a confidence in [0.28, 0.90], the fallback reports 0.6.
C2_ConfidenceAfterAdjustment ==
    HyperlocalReturned =>
        IF "nearby_stations" \in DOMAIN response.result
        THEN response.result.confidence >= 28 /\ response.result.confidence <= 90
        ELSE response.result.confidence = 60

\* an interpolated result whose reported confidence is below 0.3
C2_Witness == InterpolatedReturned /\ response.result.confidence < 30

\* C3 as stated: the returned routes are in ascending order of route_score.
C3_SortedByRouteScore ==
    RoutesReturned =>
        \A i \in 1..(Len(response.result.routes) - 1) :
            response.result.routes[i].route_score
                <= response.result.routes[i + 1].route_score

\* C3 amended: the returned routes are in ascending order of
\* pollution_exposure (the sort key of get_safe_routes), not of route_score.
C3_SortedByExposure ==
    RoutesReturned =>
        \A i \in 1..(Len(response.result.routes) - 1) :
            response.result.routes[i].pollution_exposure
                <= response.result.routes[i + 1].pollution_exposure

\* a returned list where the two orders differ: an earlier route has the
\* smaller exposure and the larger score
C3_Witness ==
    /\ RoutesReturned
    /\ \E i \in 1..(Len(response.result.routes) - 1) :
          /\ response.result.routes[i].pollution_exposure
                < response.result.routes[i + 1].pollution_exposure
          /\ response.result.routes[i].route_score
                > response.result.routes[i + 1].route_score

\* C4: get_safe_routes raises no error, whatever the start and end
\* coordinates.
C4_NeverRaises == SafeRoutesCalled => response.result.kind = "returned"

\* C5: a get_hyperlocal_aqi query with no monitoring station within radius_km
\* returns confidence exactly 0.6 and the citywide average of the station
\* AQIs rounded to one decimal, with no micro-adjustment applied.
C5_FallbackIsCityAverage ==
    (/\ HyperlocalReturned
     /\ \A k \in StationKeys :
           StationDistanceTo(response.request.latitude, response.request.longitude, k)
               > response.request.radius)
    => /\ response.result.confidence = 60
       /\ response.result.aqi \in Nearest(10 * RegistryAqiSum, Cardinality(StationKeys))
       /\ "micro_factors" \notin DOMAIN response.result

\* a query at the default radius that no station is within
C5_Witness ==
    /\ HyperlocalReturned
    /\ response.request.radius = DefaultRadius
    /\ \A k \in StationKeys :
          StationDistanceTo(response.request.latitude, response.request.longitude, k)
              > response.request.radius

\* C6: every result of get_hyperlocal_aqi reports an aqi in [0, 500].
C6_AqiWithinScale ==
    HyperlocalReturned => response.result.aqi >= 0 /\ response.result.aqi <= 5000

\* an interpolated result that the adjustment raised above every station AQI
C6_Witness ==
    /\ InterpolatedReturned
    /\ \A k \in StationKeys : response.result.aqi > 10 * monitoring_stations[k].aqi

AdjustReturned == response.op = "_adjust_aqi_for_local_factors"

\* C7 as stated: no pollutant concentration in the output of
\* _adjust_aqi_for_local_factors is below 0 or above 500.
C7_PollutantsClamped ==
    AdjustReturned =>
        \A pk \in PollutantKeys :
            /\ response.result.pollutants[pk] >= 0
            /\ response.result.pollutants[pk] <= 5000

\* C7 amended: the step scales the AQI and every pollutant concentration by
\* the combined factor; only the AQI is clamped to [0, 500]; each output
\* concentration is its input times the factor, rounded to one decimal and
\* not clamped.
C7_OnlyAqiClamped ==
    AdjustReturned =>
        /\ response.result.aqi >= 0
        /\ response.result.aqi <= 5000
        /\ \A pk \in PollutantKeys :
              response.result.pollutants[pk]
                  \in Nearest(response.base_aqi.pollutants[pk]
                                  * FactorSum(response.micro_factors), 500)

\* the AQI was cut to 500 while a concentration left the step above 500
C7_Witness ==
    /\ AdjustReturned
    /\ response.base_aqi.aqi * FactorSum(response.micro_factors) > 5000 * 500
    /\ response.result.aqi = 5000
    /\ \E pk \in PollutantKeys : response.result.pollutants[pk] > 5000

IsWalkingRoute(route) ==
    Len(route.segments) = 1 /\ route.segments[1].route_type = "walking"

\* C8: a returned route set for a pair less than 3 km apart is non-empty and
\* holds a single-segment walking route; for a pair 3 km or more apart it
\* holds none.
C8_WalkingIffShort ==
    RoutesReturned =>
        IF RequestDistance < 3000
        THEN /\ Len(response.result.routes) >= 1
             /\ \E r \in ReturnedRouteSet : IsWalkingRoute(r)
        ELSE \A r \in ReturnedRouteSet : ~IsWalkingRoute(r)

\* a walking route returned for two distinct points more than 2 km apart
C8_Witness ==
    /\ RoutesReturned
    /\ RequestDistance > 2000
    /\ \E r \in ReturnedRouteSet : IsWalkingRoute(r)

\* C9: a returned route set holds a route with a cycling segment if and only
\* if the start-end distance is at most 15 km.
C9_CyclingIffWithinLimit ==
    RoutesReturned =>
        ((\E r \in ReturnedRouteSet : "cycling" \in SegmentTags(r))
            <=> RequestDistance <= 15000)

\* a route set returned, without a cycling route, for a pair beyond 15 km
C9_Witness ==
    /\ RoutesReturned
    /\ RequestDistance > 15000
    /\ Len(response.result.routes) >= 2

MetroWithinReach(lat, lon) ==
    \E i \in DOMAIN MetroOrder : MetroDistanceTo(lat, lon, MetroOrder[i]) < 2000

\* C10: a returned route set holds a metro route if and only if the start
\* and the end each have a metro station within 2 km; without one the
\* other routes are still returned.
C10_MetroIffBothReachable ==
    RoutesReturned =>
        /\ (\E r \in ReturnedRouteSet : "metro" \in SegmentTags(r))
              <=> (/\ MetroWithinReach(response.request.start_lat,
                                       response.request.start_lon)
                   /\ MetroWithinReach(response.request.end_lat,
                                       response.request.end_lon))
        /\ Len(response.result.routes) >= 1

\* a metro route returned between two distinct points
C10_Witness ==
    /\ RoutesReturned
    /\ RequestDistance > 0
    /\ \E r \in ReturnedRouteSet : "metro" \in SegmentTags(r)


RoadRouteCount ==
    Cardinality({i \in DOMAIN response.result.routes :
                    /\ Len(response.result.routes[i].segments) = 1
                    /\ response.result.routes[i].segments[1].route_type = "road"})

\* C11 as stated: there are start and end coordinates for which get_safe_routes
\* returns an empty list.
C11_SomeCallReturnsEmpty ==
    \E s \in Points, e \in Points :
        \E mid \in get_hyperlocal_aqi((s[1] + e[1]) \div 2, (s[2] + e[2]) \div 2,
                                      DefaultRadius, station_distance).results :
            get_safe_routes(s[1], s[2], e[1], e[2],
                            generate_direct_route(s[1], s[2], e[1], e[2], mid.aqi))
                = [kind |-> "returned", routes |-> <<>>]

\* C11 amended: the list get_safe_routes returns is never empty: the direct
\* route and the green route are generated for every pair of coordinates, so
\* it holds at least these two single-segment road routes.
C11_NeverEmpty ==
    RoutesReturned => Len(response.result.routes) >= 2 /\ RoadRouteCount >= 2

\* a pair for which only the two unconditional routes are returned
C11_Witness ==
    /\ RoutesReturned
    /\ Len(response.result.routes) = 2
    /\ RoadRouteCount = 2

TagCount(tag) ==
    Cardinality({i \in DOMAIN response.result.routes :
                    tag \in SegmentTags(response.result.routes[i])})

EligibleCount ==
    2 + (IF /\ MetroWithinReach(response.request.start_lat, response.request.start_lon)
            /\ MetroWithinReach(response.request.end_lat, response.request.end_lon)
         THEN 1 ELSE 0)
      + (IF RequestDistance <= 15000 THEN 1 ELSE 0)
      + (IF RequestDistance < 3000 THEN 1 ELSE 0)

\* C12: get_safe_routes returns at most five routes, at most one of each
\* variant, and as many routes as there are eligible variants: the cut to
\* the first five drops none.
C12_AtMostFiveNoneDropped ==
    RoutesReturned =>
        /\ Len(response.result.routes) <= 5
        /\ Len(response.result.routes) = EligibleCount
        /\ RoadRouteCount <= 2
        /\ TagCount("metro") <= 1
        /\ TagCount("cycling") <= 1
        /\ Cardinality({i \in DOMAIN response.result.routes :
                           IsWalkingRoute(response.result.routes[i])}) <= 1

\* all five variants returned
C12_Witness ==
    /\ RoutesReturned
    /\ Len(response.result.routes) = 5
    /\ TagCount("metro") = 1
    /\ TagCount("cycling") = 1


FreshDistances == [k \in StationKeys |-> NoDistance]

\* C13: run sequentially, get_hyperlocal_aqi carries nothing from one call to
\* the next: whatever calls were made before, the values the next call can
\* return for given arguments (one per clock hour and random draw) are those
\* a fresh system returns, and the value a call returned is one of them.
C13_NoCarryOver ==
    /\ response = NoResponse =>
          \A p \in NearPoints, r \in Radii :
              get_hyperlocal_aqi(p[1], p[2], r, station_distance).results
                  = get_hyperlocal_aqi(p[1], p[2], r, FreshDistances).results
    /\ HyperlocalReturned =>
          response.result \in
              get_hyperlocal_aqi(response.request.latitude, response.request.longitude,
                                 response.request.radius, FreshDistances).results

\* a call returned while a station out of its range still carries the
\* distance an earlier call stored on it
C13_Witness ==
    /\ InterpolatedReturned
    /\ \E k \in StationKeys :
          /\ station_distance[k] # NoDistance
          /\ StationDistanceTo(response.request.latitude, response.request.longitude, k)
                > response.request.radius

\* C14: every result of get_hyperlocal_aqi, interpolated or fallback, carries
\* aqi, category, pollutants (pm25, pm10, no2, so2, co, o3), confidence,
\* nearby_stations, micro_factors, health_recommendations and timestamp.
C14_AllFieldsPresent ==
    HyperlocalReturned =>
        /\ {"aqi", "category", "pollutants", "confidence", "nearby_stations",
            "micro_factors", "health_recommendations", "timestamp"}
               \subseteq DOMAIN response.result
        /\ {"pm25", "pm10", "no2", "so2", "co", "o3"}
               \subseteq DOMAIN response.result.pollutants

StationsInRange ==
    {k \in StationKeys :
        StationDistanceTo(response.request.latitude, response.request.longitude, k)
            <= response.request.radius}

\* C19: in every non-fallback result of a sequential call, nearby_stations
\* lists exactly the stations within radius_km of the query point, each with
\* its distance to that point, in non-decreasing order of distance; for the
\* query 28.6139, 77.2090 with radius 2.0 the first is Central Delhi at 0.
C19_NearbyExactAndSorted ==
    InterpolatedReturned =>
        /\ Len(response.result.nearby_stations) = Cardinality(StationsInRange)
        /\ \A k \in StationsInRange :
              \E i \in DOMAIN response.result.nearby_stations :
                  /\ response.result.nearby_stations[i].name = monitoring_stations[k].name
                  /\ response.result.nearby_stations[i].distance
                        = StationDistanceTo(response.request.latitude,
                                            response.request.longitude, k)
        /\ \A i \in 1..(Len(response.result.nearby_stations) - 1) :
              response.result.nearby_stations[i].distance
                  <= response.result.nearby_stations[i + 1].distance
        /\ (/\ response.request.latitude = 2861390
            /\ response.request.longitude = 7720900
            /\ response.request.radius = 2000)
           => /\ response.result.nearby_stations[1].name = "Central Delhi"
              /\ response.result.nearby_stations[1].distance = 0

\* a query whose nearest station is registered after the others in range
C19_Witness ==
    /\ InterpolatedReturned
    /\ Len(response.result.nearby_stations) = 4
    /\ response.result.nearby_stations[1].name = "Mayapuri"
    /\ response.result.nearby_stations[4].name = "Central Delhi"


\* C18: for every returned route, of every variant, pollution_exposure equals
\* avg_aqi * (total_duration / 60), both factors being non-negative (so the
\* exposure grows with either). Exposures are in units of 1/600; the avg_aqi
\* of the metro route is the quotient kept to one tenth, so the product is
\* compared at that resolution.
C18_ExposureIsAqiHours ==
    RoutesReturned =>
        \A r \in ReturnedRouteSet :
            /\ r.avg_aqi >= 0
            /\ r.total_duration >= 0
            /\ IF Len(r.segments) = 1
               THEN r.pollution_exposure = r.avg_aqi * r.total_duration
               ELSE /\ r.avg_aqi * r.total_duration <= r.pollution_exposure
                    /\ r.pollution_exposure < (r.avg_aqi + 1) * r.total_duration

\* a metro route with walking legs returned next to single-segment routes of
\* non-zero duration
C18_Witness ==
    /\ RoutesReturned
    /\ \E r \in ReturnedRouteSet :
          /\ Len(r.segments) = 3
          /\ r.segments[1].duration > 0
          /\ r.segments[2].duration > 0
    /\ \E r \in ReturnedRouteSet : Len(r.segments) = 1 /\ r.total_duration > 0

\* C20: the interpolated AQI (before the micro-adjustment) lies between the
\* least and the greatest AQI of the selected stations, equals the station's
\* AQI when one station is selected, and a station with a strictly smaller
\* distance gets a strictly larger weight.
C20_InterpolationIsWeightedMean ==
    \A t \in Threads :
        pc[t] = "adjust" =>
            /\ \E i \in DOMAIN nearby[t] :
                  10 * monitoring_stations[nearby[t][i]].aqi <= interpolated[t].aqi
            /\ \E i \in DOMAIN nearby[t] :
                  interpolated[t].aqi <= 10 * monitoring_stations[nearby[t][i]].aqi
            /\ Len(nearby[t]) = 1 =>
                  interpolated[t].aqi = 10 * monitoring_stations[nearby[t][1]].aqi
            /\ \A i, j \in DOMAIN nearby[t] :
                  station_distance[nearby[t][i]] < station_distance[nearby[t][j]]
                      => Weight(station_distance[nearby[t][i]])
                            > Weight(station_distance[nearby[t][j]])

\* an interpolation over stations at different distances that falls strictly
\* between their AQIs
C20_Witness ==
    \E t \in Threads :
        /\ pc[t] = "adjust"
        /\ Len(nearby[t]) >= 2
        /\ \E i, j \in DOMAIN nearby[t] :
              /\ station_distance[nearby[t][i]] < station_distance[nearby[t][j]]
              /\ 10 * monitoring_stations[nearby[t][i]].aqi < interpolated[t].aqi
              /\ interpolated[t].aqi < 10 * monitoring_stations[nearby[t][j]].aqi


NeighborhoodCalled == response.op = "get_neighborhood_air_quality"

NeighborhoodReturned == NeighborhoodCalled /\ response.result.kind = "returned"

GridOf == response.result.value.air_quality_map

StatsOf == response.result.value.statistics

\* C15: for every grid_size >= 1, get_neighborhood_air_quality returns
\* grid_size * grid_size grid points and statistics consistent with them:
\* minimum_aqi and maximum_aqi are the least and greatest aqi of the grid,
\* minimum_aqi <= average_aqi <= maximum_aqi, aqi_range is their difference,
\* and cleanest_spot / dirtiest_spot are grid points with those aqi values.
C15_GridAndStatistics ==
    (NeighborhoodCalled /\ response.request.grid_size >= 1) =>
        /\ response.result.kind = "returned"
        /\ Len(GridOf) = response.request.grid_size * response.request.grid_size
        /\ \A i \in DOMAIN GridOf :
              StatsOf.minimum_aqi <= GridOf[i].aqi /\ GridOf[i].aqi <= StatsOf.maximum_aqi
        /\ StatsOf.minimum_aqi <= StatsOf.average_aqi
        /\ StatsOf.average_aqi <= StatsOf.maximum_aqi
        /\ StatsOf.aqi_range = StatsOf.maximum_aqi - StatsOf.minimum_aqi
        /\ \E i \in DOMAIN GridOf :
              GridOf[i] = StatsOf.cleanest_spot /\ GridOf[i].aqi = StatsOf.minimum_aqi
        /\ \E i \in DOMAIN GridOf :
              GridOf[i] = StatsOf.dirtiest_spot /\ GridOf[i].aqi = StatsOf.maximum_aqi

\* a 3 x 3 grid whose average lies strictly between its extremes
C15_Witness ==
    /\ NeighborhoodReturned
    /\ response.request.grid_size = 3
    /\ Len(GridOf) = 9
    /\ StatsOf.minimum_aqi < StatsOf.average_aqi
    /\ StatsOf.average_aqi < StatsOf.maximum_aqi

\* C16: get_neighborhood_air_quality returns a statistics payload without
\* raising for every integer grid_size, 0 and negative values included.
C16_NeverRaises == NeighborhoodCalled => response.result.kind = "returned"


HandlerResponded == response.op = "GET /hyperlocal-aqi"

\* a text float() cannot convert: empty, or holding a character that is no
\* digit, sign or point
Malformed(arg) ==
    /\ arg.given
    /\ \/ arg.text = <<>>
       \/ \E i \in DOMAIN arg.text :
             arg.text[i] \notin DOMAIN DigitValue \cup {".", "-", "+"}

\* C17 as stated: a malformed lat on the hyperlocal-aqi endpoint ends in the
\* application-level 500 handler of app.py, not in a response built by the
\* route handler.
C17_MalformedReachesAppHandler ==
    (HandlerResponded /\ Malformed(response.request.lat)) => response.result = internal_error

\* C17 amended: the conversions are inside the route handler's try block, so
\* the ValueError of a malformed lat, lon or radius is caught by its
\* except clause: the handler itself answers with status code 500 and a body
\* {status: 'error', message, timestamp}; the 500 handler of app.py is not
\* involved.
C17_MalformedCaughtByRoute ==
    (/\ HandlerResponded
     /\ \/ Malformed(response.request.lat)
        \/ Malformed(response.request.lon)
        \/ Malformed(response.request.radius))
    => /\ response.result # internal_error
       /\ response.result.status_code = 500
       /\ {"status", "message", "timestamp"} \subseteq DOMAIN response.result.body
       /\ response.result.body.status = "error"
       /\ response.result.body.message.error = "ValueError"

\* a request with a non-numeric lat and well-formed lon and radius, answered
\* by the route handler
C17_Witness ==
    /\ HandlerResponded
    /\ response.request.lat = Given(<<"a", "b", "c">>)
    /\ response.request.lon = Given(Text772090)
    /\ response.request.radius = Given(<<"2", ".", "0">>)
    /\ response.result.status_code = 500
    /\ response.result.body.message.text = <<"a", "b", "c">>

\* C21: the combined micro-adjustment factor, the arithmetic mean of the
\* time-of-day factor and the four sampled factors (FactorSum / 5, in
\* hundredths), lies within [0.6, 1.3] for every hour of the day and every
\* draw of the four factors. Every hour of the day has the time factor of one
\* of the hours drawn, and the mean grows with each factor, so the ends of the
\* four ranges bound it.
C21_CombinedFactorInRange ==
    /\ \A h \in DayHours : \E c \in ClockHours : time_factor(h) = time_factor(c)
    /\ AdjustReturned =>
          /\ FactorSum(response.micro_factors) >= 5 * 60
          /\ FactorSum(response.micro_factors) <= 5 * 130

\* an adjustment made in a rush hour with every sampled factor at the top of
\* its range: the largest combined factor, 1.24
C21_Witness ==
    /\ AdjustReturned
    /\ response.micro_factors.time_factor = time_factor(8)
    /\ response.micro_factors.traffic_factor = 130
    /\ response.micro_factors.green_space_factor = 110
    /\ response.micro_factors.industrial_factor = 120
    /\ response.micro_factors.construction_factor = 140
    /\ FactorSum(response.micro_factors) = 620

TypedRoutesReturned ==
    /\ SafeRoutesCalled
    /\ "route_type" \in DOMAIN response.request
    /\ response.result.kind = "returned"

\* C22: the route_type argument of get_safe_routes has no effect: for the
\* same start and end coordinates and the same direct route (the part of the
\* call that depends on the clock hour and the random draws), every value of
\* route_type yields the list that was returned, in the same order.
C22_RouteTypeIgnored ==
    TypedRoutesReturned =>
        \A rt \in RouteTypes :
            get_safe_routes_of_type(response.request.start_lat, response.request.start_lon,
                                    response.request.end_lat, response.request.end_lon,
                                    rt, response.direct_route)
                = response.result

\* a call with route_type 'fastest' that returned more than the direct route
C22_Witness ==
    /\ TypedRoutesReturned
    /\ response.request.route_type = "fastest"
    /\ Len(response.result.routes) >= 3
    /\ response.result.routes[1] # response.direct_route

IsMetroRoute(route) == Len(route.segments) = 3

\* sum of aqi * duration over the segments of a route
RECURSIVE SegmentAqiMinutes(_)
SegmentAqiMinutes(segments) ==
    IF segments = <<>> THEN 0
    ELSE Head(segments).aqi * Head(segments).duration + SegmentAqiMinutes(Tail(segments))

\* C23: every route returned by get_safe_routes has max_aqi >= avg_aqi and
\* route_score >= pollution_exposure >= 0; the avg_aqi of a metro route is
\* the duration-weighted mean of its walking (250) and metro (180) segments
\* (here cut to one tenth) and lies in [180, 250].
C23_RouteFieldsOrdered ==
    RoutesReturned =>
        \A i \in DOMAIN response.result.routes :
            /\ response.result.routes[i].max_aqi >= response.result.routes[i].avg_aqi
            /\ response.result.routes[i].route_score
                    >= response.result.routes[i].pollution_exposure
            /\ response.result.routes[i].pollution_exposure >= 0
            /\ IsMetroRoute(response.result.routes[i]) =>
                  /\ response.result.routes[i].avg_aqi * response.result.routes[i].total_duration
                        <= SegmentAqiMinutes(response.result.routes[i].segments)
                  /\ SegmentAqiMinutes(response.result.routes[i].segments)
                        < (response.result.routes[i].avg_aqi + 1)
                              * response.result.routes[i].total_duration
                  /\ response.result.routes[i].avg_aqi >= MetroAqi * 10
                  /\ response.result.routes[i].avg_aqi <= WalkingAqi * 10

\* a returned set holding a metro route whose mean lies strictly between the
\* two segment AQIs, next to a single-segment route with a positive exposure
C23_Witness ==
    /\ RoutesReturned
    /\ \E i \in DOMAIN response.result.routes :
          /\ IsMetroRoute(response.result.routes[i])
          /\ response.result.routes[i].avg_aqi > MetroAqi * 10
          /\ response.result.routes[i].avg_aqi < WalkingAqi * 10
          /\ response.result.routes[i].segments[2].duration > 0
    /\ \E i \in DOMAIN response.result.routes :
          /\ Len(response.result.routes[i].segments) = 1
          /\ response.result.routes[i].pollution_exposure > 0
          /\ response.result.routes[i].route_score
                  > response.result.routes[i].pollution_exposure

\* the step is a start_policy_intervention call that returned an identifier
StartSucceeds ==
    /\ response = NoResponse
    /\ response'.op = "start_policy_intervention"
    /\ "intervention_id" \in DOMAIN response'.result

\* C24: every successful start_policy_intervention call creates a new tracked
\* intervention under an intervention_id that was not tracked before, two
\* starts of one policy within one clock second included: it adds one entry
\* to active_interventions and overwrites no intervention and no baseline.
C24_EveryStartIsNew ==
    [][StartSucceeds =>
          /\ response'.result.intervention_id \notin DOMAIN active_interventions
          /\ Cardinality(DOMAIN active_interventions')
                = Cardinality(DOMAIN active_interventions) + 1
          /\ \A k \in DOMAIN active_interventions :
                /\ active_interventions'[k] = active_interventions[k]
                /\ baseline_measurements'[k] = baseline_measurements[k]]_vars

MonitorReturned == response.op = "monitor_policy_compliance"

\* C26: PolicyEnforcementEngine has no operation that registers a policy:
\* active_policies is empty in every reachable state, every
\* monitor_policy_compliance call returns the 'Policy not found' error value,
\* and compliance_monitoring and automated_interventions stay empty.
C26_NoPolicyEverRegistered ==
    /\ DOMAIN active_policies = {}
    /\ DOMAIN compliance_monitoring = {}
    /\ automated_interventions = <<>>
    /\ MonitorReturned => response.result = PolicyNotFound
    /\ response.op = "get_enforcement_summary" =>
          /\ response.result.active_policies = 0
          /\ response.result.monitored_locations = 0
          /\ response.result.total_interventions = 0

\* a policy the status handler monitors, one that has an intervention
\* template, was reported as not found
C26_Witness ==
    /\ MonitorReturned
    /\ response.request.policy_id = "odd_even_vehicle"
    /\ response.request.policy_id \in TemplateIds
    /\ response.result.message = "Policy not found"

\* C27: a tracked intervention is 'active' from its start until the first
\* end_policy_intervention on it and 'completed' ever after: no step removes
\* an intervention from active_interventions, none returns a completed one to
\* 'active', and only end_policy_intervention on it completes an active one.
C27_CompletedForGood ==
    [][\A k \in DOMAIN active_interventions :
          /\ k \in DOMAIN active_interventions'
          /\ active_interventions[k].status = "completed"
                => active_interventions'[k].status = "completed"
          /\ active_interventions[k].status = "active"
                => \/ active_interventions'[k].status = "active"
                   \/ /\ response'.op = "end_policy_intervention"
                      /\ response'.request.intervention_id = k
                      /\ active_interventions'[k].status = "completed"]_vars

\* the step is a call of `op` by name (start, predict) or by identifier
\* (measure, end) that the tracker does not know
UnknownNameCall ==
    /\ response = NoResponse
    /\ \/ /\ response'.op \in {"start_policy_intervention",
                              "predict_intervention_effectiveness"}
          /\ response'.request.policy_name \notin DOMAIN policy_benchmarks
       \/ /\ response'.op \in {"measure_effectiveness", "end_policy_intervention"}
          /\ response'.request.intervention_id \notin DOMAIN active_interventions

\* C28: tracker operations on unknown names fail as values and change
\* nothing: start and predict with a policy name outside the benchmark table
\* return {'error': 'Unknown policy type'}, measure and end with an untracked
\* intervention_id return {'error': 'Intervention not found'}, and the three
\* fields of the tracker are left as they were.
C28_UnknownNamesChangeNothing ==
    [][UnknownNameCall =>
          /\ response'.result =
                IF response'.op \in {"start_policy_intervention",
                                     "predict_intervention_effectiveness"}
                THEN UnknownPolicyType ELSE InterventionNotFound
          /\ UNCHANGED tracker]_vars

\* an end on an untracked identifier returned the error value while
\* interventions and measurements were being tracked
C28_Witness ==
    /\ response.op = "end_policy_intervention"
    /\ response.request.intervention_id = UntrackedId
    /\ response.result = InterventionNotFound
    /\ DOMAIN active_interventions # {}
    /\ effectiveness_history # <<>>

\* C29: baseline_measurements and active_interventions have the same keys,
\* and every entry of effectiveness_history has an intervention_id that is a
\* key of active_interventions, so that the lookups of get_policy_analytics
\* and _get_historical_effectiveness never miss.
C29_KeysAgree ==
    /\ DOMAIN baseline_measurements = DOMAIN active_interventions
    /\ \A i \in DOMAIN effectiveness_history :
          effectiveness_history[i].intervention_id \in DOMAIN active_interventions
    /\ response.op \in {"get_policy_analytics", "predict_intervention_effectiveness",
                        "measure_effectiveness", "end_policy_intervention"}
          => "kind" \notin DOMAIN response.result

\* analytics over measurements of two tracked interventions
C29_Witness ==
    /\ response.op = "get_policy_analytics"
    /\ Cardinality(DOMAIN active_interventions) = 2
    /\ Cardinality({effectiveness_history[i].intervention_id :
                        i \in DOMAIN effectiveness_history}) = 2
    /\ response.result.overall_statistics.total_measurements = 2

\* the step is a measure_effectiveness or end_policy_intervention call that
\* succeeded
MeasureOrEndSucceeds ==
    /\ response = NoResponse
    /\ response'.op \in {"measure_effectiveness", "end_policy_intervention"}
    /\ "error" \notin DOMAIN response'.result

\* C30: effectiveness_history is append-only: a successful
\* measure_effectiveness or end_policy_intervention call appends exactly one
\* measurement, of the intervention it was called on, every other step
\* leaves the list as it was, and the measurement_count an end reports is
\* the number of entries of that intervention, at least 1 (so it counts the
\* successful measure and end calls made on that identifier).
C30_HistoryAppendOnly ==
    [][IF MeasureOrEndSucceeds
       THEN /\ Len(effectiveness_history') = Len(effectiveness_history) + 1
            /\ SubSeq(effectiveness_history', 1, Len(effectiveness_history))
                  = effectiveness_history
            /\ effectiveness_history'[Len(effectiveness_history')].intervention_id
                  = response'.request.intervention_id
            /\ response'.op = "end_policy_intervention" =>
                  /\ response'.result.statistics.measurement_count >= 1
                  /\ response'.result.statistics.measurement_count
                        = Len(MeasurementsOf(effectiveness_history',
                                             response'.request.intervention_id))
       ELSE effectiveness_history' = effectiveness_history]_vars

\* an end that reported two measurements: one measure call and the end itself
C30_Witness ==
    /\ response.op = "end_policy_intervention"
    /\ "statistics" \in DOMAIN response.result
    /\ response.result.statistics.measurement_count = 2
    /\ Len(effectiveness_history) = 2

\* the values are those the feed of `city` reports
FetchedFor(data, city) ==
    /\ data.source = "WAQI"
    /\ data.aqi = WaqiFeed[city].aqi
    /\ data.pm25 = WaqiFeed[city].pm25

\* C25: what get_real_time_aqi serves from the 'waqi' cache entry is data
\* that was fetched for the default city, Delhi, also after get_waqi_data
\* calls for other cities (as get_multiple_stations issues them), and
\* fallback data is never stored in the cache.
C25_CacheHoldsDelhi ==
    /\ \A k \in DOMAIN cache : cache[k].data.source # "Fallback"
    /\ (response.op = "get_real_time_aqi" /\ response.served = "cache")
          => FetchedFor(response.result, "Delhi")

====
